---- MODULE Spec2Model ----
(***************************************************************************)
(* The secure REST API of src/server.js: token issuance (generateToken),   *)
(* bearer verification (verifyToken), content-signature verification       *)
(* (verifyContentSignature) and the endpoints built on them, driven by a   *)
(* client that keeps the tokens the server returned (authToken and         *)
(* signedToken, as the test script and the usage example do).              *)
(*                                                                         *)
(* JavaScript values are records [t, v]; an object is the sequence of its  *)
(* fields in insertion order; JSON text is a string; a JWT is the record   *)
(* of its three segments, with an HMAC that names the key and the signed   *)
(* segments.  The requests stay within the rate limiter's budget, and      *)
(* the keys are the defaults of the source.                                *)
(*                                                                         *)
(* The banking application of src/bank.js and src/account.js is a program  *)
(* of its own and follows the server: its state is the Bank's fields, and  *)
(* a caller makes one call at a time on the Bank's methods.                *)
(* Its menu, the BankingApp of src/index.js, follows the bank: it reads    *)
(* the customer's answers and calls the bank for the account logged in.    *)
(***************************************************************************)
EXTENDS Integers, Sequences, FiniteSets, TLC

\* ------------------------------------------------------------------ bounds
\* Token lifetimes the clock runs for.
MaxDays == 1
\* Largest post id the store hands out.
MaxPostId == 3
\* Largest user id the store hands out.
MaxUserId == 3
\* Accounts the bank opens.
MaxAccounts == 2
\* History entries the bank writes, over all accounts, before the session ends.
MaxEntries == 3

\* --------------------------------------------------------------- constants
TTL == 60 * 60 * 24
JWT_SECRET == "your-super-secret-jwt-key-change-in-production"
CONTENT_SIGNATURE_SECRET == "content-signature-secret-key"

\* The moments (seconds) at which the clock is observed: the first two
\* seconds, and the second at which a token issued a lifetime earlier expires.
Instants == {0, 1} \cup {d * TTL : d \in 1..MaxDays}

\* ------------------------------------------------------- JavaScript values
Str(s) == [t |-> "string", v |-> s]
JNull == [t |-> "null", v |-> "null"]
JInfinity == [t |-> "number", v |-> "Infinity"]
Undefined == [t |-> "undefined", v |-> "undefined"]

\* !x for the values above
Falsy(x) == x.t \in {"undefined", "null"} \/ (x.t = "string" /\ x.v = "")

Field(k, x) == [k |-> k, v |-> x]

\* obj[key], undefined when the object has no such field
Get(obj, key) ==
    IF \E i \in 1..Len(obj) : obj[i].k = key
    THEN obj[CHOOSE i \in 1..Len(obj) : obj[i].k = key].v
    ELSE Undefined

\* ------------------------------------------------------------------- JSON
Quote(s) == "\"" \o s \o "\""

\* JSON.stringify of one value: a string is quoted (the strings here need no
\* escapes), a finite number is its digits, null is null, and a non-finite
\* number is written as null.
SerializeValue(x) ==
    IF x.t = "string" THEN Quote(x.v)
    ELSE IF x.t = "number" /\ x.v \in {"Infinity", "-Infinity", "NaN"} THEN "null"
    ELSE IF x.t = "number" THEN x.v
    ELSE "null"

RECURSIVE SerializeMembers(_, _)
SerializeMembers(obj, i) ==
    IF i > Len(obj) THEN ""
    ELSE (IF i > 1 THEN "," ELSE "")
         \o Quote(obj[i].k) \o ":" \o SerializeValue(obj[i].v)
         \o SerializeMembers(obj, i + 1)

\* An object lists its properties with the array-index keys first, in
\* ascending order, and the other keys after them in the order of creation.
IndexKeys == <<"0", "1", "2", "3", "4", "5", "6", "7", "8", "9">>
IsIndex(k) == \E d \in 1..Len(IndexKeys) : IndexKeys[d] = k

RECURSIVE IndexedFrom(_, _)
IndexedFrom(obj, d) ==
    IF d > Len(IndexKeys) THEN <<>>
    ELSE SelectSeq(obj, LAMBDA f : f.k = IndexKeys[d]) \o IndexedFrom(obj, d + 1)

\* A variant that lists every property in the order of creation.
CreationOrder(obj) == obj

PropertyOrder(obj) ==
    IF \E i \in 1..Len(obj) : IsIndex(obj[i].k)
    THEN IndexedFrom(obj, 1) \o SelectSeq(obj, LAMBDA f : ~IsIndex(f.k))
    ELSE obj

\* JSON.stringify(obj): the fields in property order, undefined ones skipped
JSONstringify(obj) ==
    "{" \o SerializeMembers(SelectSeq(PropertyOrder(obj), LAMBDA f : f.v.t # "undefined"), 1)
        \o "}"

Char(text, i) == SubSeq(text, i, i)

\* the first position from i on that holds one of the characters
RECURSIVE Scan(_, _, _)
Scan(text, i, chars) ==
    IF i >= Len(text) \/ Char(text, i) \in chars THEN i ELSE Scan(text, i + 1, chars)

\* the value whose text starts at i and ends before position `end`
ParseValue(text, i, end) ==
    IF Char(text, i) = "\"" THEN [t |-> "string", v |-> SubSeq(text, i + 1, end - 2)]
    ELSE IF SubSeq(text, i, end - 1) = "null" THEN [t |-> "null", v |-> "null"]
    ELSE [t |-> "number", v |-> SubSeq(text, i, end - 1)]

\* the members of an object's text from position i on, i at a key's opening quote
RECURSIVE ParseMembers(_, _)
ParseMembers(text, i) ==
    IF i > Len(text) \/ Char(text, i) # "\"" THEN <<>>
    ELSE LET keyEnd == Scan(text, i + 1, {"\""})
             valueAt == keyEnd + 2
             valueEnd == IF Char(text, valueAt) = "\""
                         THEN Scan(text, valueAt + 1, {"\""}) + 1
                         ELSE Scan(text, valueAt, {",", "}"})
         IN  <<[k |-> SubSeq(text, i + 1, keyEnd - 1),
                v |-> ParseValue(text, valueAt, valueEnd)]>>
             \o ParseMembers(text, valueEnd + 1)

\* JSON.parse(text) of the text of a flat object
JSONparse(text) == ParseMembers(text, 2)

\* A variant that takes the length of the object's JSON text.
TextLength(obj) == Len(JSONstringify(obj))

\* Object.keys(obj).length
KeyCount(obj) == Len(obj)

\* ------------------------------------------------------------------- JWT
\* HMAC of a message under a key: equal exactly when key and message are
HMAC(msg, key) == [key |-> key, msg |-> msg]

JwtHeader == [alg |-> "HS256", typ |-> "JWT"]

\* jwt.sign(payload, secret) for a payload that carries its own iat
jwtSign(payload, secret) ==
    [segments |-> 3, header |-> JwtHeader, payload |-> payload,
     signature |-> HMAC(<<JwtHeader, payload>>, secret)]

\* no token at all
NoToken == [segments |-> 0]

\* Variants of jwt.verify the claims are tested against: one that holds a
\* token expired once the clock has passed its iat, one that decodes without
\* checking the signature, one that ignores exp, one that checks exp before
\* the signature, one that still accepts a token in the second of its exp.
jwtVerifyFreshOnly(token, secret, t) ==
    IF token.segments = 0
    THEN [ok |-> FALSE, message |-> "jwt must be provided"]
    ELSE IF token.segments # 3
    THEN [ok |-> FALSE, message |-> "jwt malformed"]
    ELSE IF token.signature # HMAC(<<token.header, token.payload>>, secret)
    THEN [ok |-> FALSE, message |-> "invalid signature"]
    ELSE IF "exp" \in DOMAIN token.payload /\ t > token.payload.iat
    THEN [ok |-> FALSE, message |-> "jwt expired"]
    ELSE [ok |-> TRUE, message |-> "ok"]

jwtVerifyLateExpiry(token, secret, t) ==
    IF token.segments = 0
    THEN [ok |-> FALSE, message |-> "jwt must be provided"]
    ELSE IF token.segments # 3
    THEN [ok |-> FALSE, message |-> "jwt malformed"]
    ELSE IF token.signature # HMAC(<<token.header, token.payload>>, secret)
    THEN [ok |-> FALSE, message |-> "invalid signature"]
    ELSE IF "exp" \in DOMAIN token.payload /\ t > token.payload.exp
    THEN [ok |-> FALSE, message |-> "jwt expired"]
    ELSE [ok |-> TRUE, message |-> "ok"]

jwtDecodeOnly(token, secret, t) ==
    IF token.segments = 0
    THEN [ok |-> FALSE, message |-> "jwt must be provided"]
    ELSE IF token.segments # 3
    THEN [ok |-> FALSE, message |-> "jwt malformed"]
    ELSE IF "exp" \in DOMAIN token.payload /\ t >= token.payload.exp
    THEN [ok |-> FALSE, message |-> "jwt expired"]
    ELSE [ok |-> TRUE, message |-> "ok"]

jwtVerifyIgnoreExpiration(token, secret, t) ==
    IF token.segments = 0
    THEN [ok |-> FALSE, message |-> "jwt must be provided"]
    ELSE IF token.segments # 3
    THEN [ok |-> FALSE, message |-> "jwt malformed"]
    ELSE IF token.signature # HMAC(<<token.header, token.payload>>, secret)
    THEN [ok |-> FALSE, message |-> "invalid signature"]
    ELSE [ok |-> TRUE, message |-> "ok"]

jwtVerifyExpiryFirst(token, secret, t) ==
    IF token.segments = 0
    THEN [ok |-> FALSE, message |-> "jwt must be provided"]
    ELSE IF token.segments # 3
    THEN [ok |-> FALSE, message |-> "jwt malformed"]
    ELSE IF "exp" \in DOMAIN token.payload /\ t >= token.payload.exp
    THEN [ok |-> FALSE, message |-> "jwt expired"]
    ELSE IF token.signature # HMAC(<<token.header, token.payload>>, secret)
    THEN [ok |-> FALSE, message |-> "invalid signature"]
    ELSE [ok |-> TRUE, message |-> "ok"]

\* jwt.verify(token, secret) at time t: 'jwt must be provided', then the
\* three-part split, then the signature, then exp (t >= exp is expired).
jwtVerify(token, secret, t) ==
    IF token.segments = 0
    THEN [ok |-> FALSE, message |-> "jwt must be provided"]
    ELSE IF token.segments # 3
    THEN [ok |-> FALSE, message |-> "jwt malformed"]
    ELSE IF token.signature # HMAC(<<token.header, token.payload>>, secret)
    THEN [ok |-> FALSE, message |-> "invalid signature"]
    ELSE IF "exp" \in DOMAIN token.payload /\ t >= token.payload.exp
    THEN [ok |-> FALSE, message |-> "jwt expired"]
    ELSE [ok |-> TRUE, message |-> "ok"]

\* ------------------------------------------------------------ server state
VARIABLES
    users,          \* the users list
    posts,          \* the posts list
    nextUserId,
    nextPostId,
    now,            \* Math.floor(Date.now() / 1000)
    authToken,      \* the client's token from login or registration
    signedToken,    \* the client's token from sign-content
    signedContent,  \* the content the client sent to sign-content for signedToken
    loggedIn,       \* ids of the users a login or registration issued a token to
    signer,         \* userId of the token presented at the latest successful sign-content
    lastAccepted,   \* the latest mutating request that passed both verifiers
    last,           \* the request being answered and its response, until the client reads it
    hashing,        \* the registrations suspended at await bcrypt.hash
    accounts,       \* Bank.accounts: account number -> Account
    termDeposits,   \* Bank.termDeposits: term deposit id -> TermDeposit
    nextAccountNumber,
    nextTermDepositId,
    outcome,        \* the latest call on the bank: its arguments, the bank it found, its result
    currentAccount, \* BankingApp.currentAccount
    command         \* the menu option being answered: the session it found, what it printed

vars == <<users, posts, nextUserId, nextPostId, now, authToken, signedToken,
          signedContent, loggedIn, signer, lastAccepted, last, hashing,
          accounts, termDeposits, nextAccountNumber, nextTermDepositId, outcome,
          currentAccount, command>>

\* the state of the Bank of src/bank.js, a program of its own
bank == <<accounts, termDeposits, nextAccountNumber, nextTermDepositId, outcome>>

\* the state of the BankingApp of src/index.js, the bank's menu
app == <<currentAccount, command>>

store == <<users, posts, nextUserId, nextPostId>>

\* bcrypt.hash(password, 10) and bcrypt.compare(password, hash)
bcryptHash(password) == [bcrypt |-> password]
bcryptCompare(password, hash) == hash = bcryptHash(password)

\* The content argument of generateToken is <<>> for null and <<obj>> for an object.
NoContent == <<>>

\* generateToken(user, content); iatClock and expClock are its two readings of
\* Date.now(), in seconds. jwt.sign stamps the inner token at signing time.
generateToken(user, content, iatClock, expClock) ==
    LET payload == [userId |-> user.id, username |-> user.username,
                    email |-> user.email, iat |-> iatClock, exp |-> expClock + TTL]
    IN  IF content # NoContent
        THEN LET contentString == JSONstringify(content[1])
                 contentSignature ==
                     jwtSign([content |-> contentString, iat |-> expClock],
                             CONTENT_SIGNATURE_SECRET)
             IN  jwtSign(payload @@ [contentSignature |-> contentSignature,
                                     signedContent |-> contentString],
                         JWT_SECRET)
        ELSE jwtSign(payload, JWT_SECRET)

\* ------------------------------------------------------------- middleware
\* what the client reads of an object sent with res.json
resJson(obj) == JSONparse(JSONstringify(obj))

\* the details member of a response body, absent from most responses
NoDetails == [present |-> FALSE, submittedContent |-> <<>>, signedContent |-> <<>>]
Details(submitted, signed) ==
    [present |-> TRUE, submittedContent |-> resJson(submitted),
     signedContent |-> resJson(signed)]

Response(status, error, message) ==
    [status |-> status, error |-> error, message |-> message, details |-> NoDetails]

NoUser == [userId |-> 0]
NoAuth == [scheme |-> "none", token |-> NoToken]
Bearer(token) == [scheme |-> "Bearer", token |-> token]

\* A variant of verifyToken that turns away a token that carries a content
\* signature.
verifyTokenPlainOnly(auth, t) ==
    IF auth.scheme # "Bearer"
    THEN [next |-> FALSE, user |-> NoUser,
          res |-> Response(401, "Access denied. No token provided.",
                           "Authorization header must contain a Bearer token")]
    ELSE LET decoded == jwtVerify(auth.token, JWT_SECRET, t)
         IN  IF decoded.ok /\ "contentSignature" \notin DOMAIN auth.token.payload
             THEN [next |-> TRUE, user |-> auth.token.payload,
                   res |-> Response(0, "", "")]
             ELSE [next |-> FALSE, user |-> NoUser,
                   res |-> Response(403, "Invalid token.", decoded.message)]

\* verifyToken at time t: next with req.user, or the response it sends
verifyToken(auth, t) ==
    IF auth.scheme # "Bearer"
    THEN [next |-> FALSE, user |-> NoUser,
          res |-> Response(401, "Access denied. No token provided.",
                           "Authorization header must contain a Bearer token")]
    ELSE LET decoded == jwtVerify(auth.token, JWT_SECRET, t)
         IN  IF decoded.ok
             THEN [next |-> TRUE, user |-> auth.token.payload,
                   res |-> Response(0, "", "")]
             ELSE [next |-> FALSE, user |-> NoUser,
                   res |-> Response(403, "Invalid token.", decoded.message)]

\* A variant of verifyContentSignature that lets a token without a content
\* signature through.
verifyContentSignatureOptional(user, body, t) ==
    IF "contentSignature" \notin DOMAIN user \/ "signedContent" \notin DOMAIN user
    THEN [next |-> TRUE, res |-> Response(0, "", "")]
    ELSE LET contentPayload == jwtVerify(user.contentSignature, CONTENT_SIGNATURE_SECRET, t)
         IN  IF ~contentPayload.ok
             THEN [next |-> FALSE,
                   res |-> Response(400, "Invalid content signature.", contentPayload.message)]
             ELSE IF JSONstringify(body)
                         # JSONstringify(JSONparse(user.contentSignature.payload.content))
             THEN [next |-> FALSE,
                   res |-> Response(400, "Content signature mismatch.",
                                    "Submitted content does not match signed content.")]
             ELSE [next |-> TRUE, res |-> Response(0, "", "")]

\* A variant that compares the submitted content with the signedContent claim
\* of the token, and one that verifies the content signature under the auth key.
verifyContentSignatureByClaim(user, body, t) ==
    IF "contentSignature" \notin DOMAIN user \/ "signedContent" \notin DOMAIN user
    THEN [next |-> FALSE,
          res |-> Response(400, "Content signature required for POST operations.",
                           "JWT token must contain signed content for data integrity verification.")]
    ELSE LET contentPayload == jwtVerify(user.contentSignature, CONTENT_SIGNATURE_SECRET, t)
         IN  IF ~contentPayload.ok
             THEN [next |-> FALSE,
                   res |-> Response(400, "Invalid content signature.", contentPayload.message)]
             ELSE IF JSONstringify(body) # user.signedContent
             THEN [next |-> FALSE,
                   res |-> [Response(400, "Content signature mismatch.",
                                     "Submitted content does not match signed content.")
                               EXCEPT !.details = Details(body, JSONparse(user.signedContent))]]
             ELSE [next |-> TRUE, res |-> Response(0, "", "")]

verifyContentSignatureAuthKey(user, body, t) ==
    IF "contentSignature" \notin DOMAIN user \/ "signedContent" \notin DOMAIN user
    THEN [next |-> FALSE,
          res |-> Response(400, "Content signature required for POST operations.",
                           "JWT token must contain signed content for data integrity verification.")]
    ELSE LET contentPayload == jwtVerify(user.contentSignature, JWT_SECRET, t)
         IN  IF ~contentPayload.ok
             THEN [next |-> FALSE,
                   res |-> Response(400, "Invalid content signature.", contentPayload.message)]
             ELSE IF JSONstringify(body)
                         # JSONstringify(JSONparse(user.contentSignature.payload.content))
             THEN [next |-> FALSE,
                   res |-> [Response(400, "Content signature mismatch.",
                                     "Submitted content does not match signed content.")
                               EXCEPT !.details =
                                   Details(body, JSONparse(user.contentSignature.payload.content))]]
             ELSE [next |-> TRUE, res |-> Response(0, "", "")]

\* A variant that consults the posts list: content whose title a stored post
\* already has is turned away.
verifyContentSignatureOnce(user, body, t) ==
    IF "contentSignature" \notin DOMAIN user \/ "signedContent" \notin DOMAIN user
    THEN [next |-> FALSE,
          res |-> Response(400, "Content signature required for POST operations.",
                           "JWT token must contain signed content for data integrity verification.")]
    ELSE LET contentPayload == jwtVerify(user.contentSignature, CONTENT_SIGNATURE_SECRET, t)
         IN  IF ~contentPayload.ok
             THEN [next |-> FALSE,
                   res |-> Response(400, "Invalid content signature.", contentPayload.message)]
             ELSE IF \/ JSONstringify(body)
                           # JSONstringify(JSONparse(user.contentSignature.payload.content))
                     \/ \E i \in 1..Len(posts) : posts[i].title = Get(body, "title")
             THEN [next |-> FALSE,
                   res |-> [Response(400, "Content signature mismatch.",
                                     "Submitted content does not match signed content.")
                               EXCEPT !.details =
                                   Details(body, JSONparse(user.contentSignature.payload.content))]]
             ELSE [next |-> TRUE, res |-> Response(0, "", "")]

\* verifyContentSignature for req.user and req.body at time t
verifyContentSignature(user, body, t) ==
    IF "contentSignature" \notin DOMAIN user \/ "signedContent" \notin DOMAIN user
    THEN [next |-> FALSE,
          res |-> Response(400, "Content signature required for POST operations.",
                           "JWT token must contain signed content for data integrity verification.")]
    ELSE LET contentPayload == jwtVerify(user.contentSignature, CONTENT_SIGNATURE_SECRET, t)
         IN  IF ~contentPayload.ok
             THEN [next |-> FALSE,
                   res |-> Response(400, "Invalid content signature.", contentPayload.message)]
             ELSE LET signed == JSONparse(user.contentSignature.payload.content)
                      submittedContent == JSONstringify(body)
                      originalContent == JSONstringify(signed)
                  IN  IF submittedContent # originalContent
                      THEN [next |-> FALSE,
                            res |-> [Response(400, "Content signature mismatch.",
                                              "Submitted content does not match signed content.")
                                        EXCEPT !.details = Details(body, signed)]]
                      ELSE [next |-> TRUE, res |-> Response(0, "", "")]

\* ------------------------------------------------------------------ client
\* Request bodies the client sends to the content endpoints: the empty object
\* and the post {title: "A", content: "B", n: x} with x a number, an
\* overflowing number literal (1e999, which express.json parses as Infinity)
\* or null.
Num(s) == [t |-> "number", v |-> s]
FieldValues == {Num("1"), JInfinity, JNull}
Bodies ==
    {<<>>} \cup {<<Field("title", Str("A")), Field("content", Str("B")), Field("n", x)>> :
                    x \in FieldValues}

Account(username, email, password) ==
    <<Field("username", Str(username)), Field("email", Str(email)),
      Field("password", Str(password))>>
Accounts ==
    {Account("admin", "admin@example.com", "password123"),
     Account("admin", "admin@example.com", "letmein"),
     Account("testuser", "test@example.com", "testpassword123"),
     Account("", "test@example.com", "testpassword123")}

\* What a client can do to a token it holds without knowing a server key:
\* change a byte of the header, of the claims (here exp, pushed a lifetime
\* ahead) or of the signature, change a byte into a dot (one segment more), or
\* graft on a content signature made with a key of its own.
Alterations == {"header", "payload", "signature", "structure"}
Alter(token, how) ==
    CASE how = "header" -> [token EXCEPT !.header.alg = "HS384"]
      [] how = "payload" -> [token EXCEPT !.payload.exp = @ + TTL]
      [] how = "signature" -> [token EXCEPT !.signature.key = "client-key"]
      [] how = "structure" -> [token EXCEPT !.segments = 4]
      [] how = "graft" ->
            [token EXCEPT !.payload =
                [f \in (DOMAIN @) \ {"contentSignature", "signedContent"} |-> @[f]]
                @@ [contentSignature |->
                        jwtSign([content |-> JSONstringify(signedContent), iat |-> now],
                                "client-key"),
                    signedContent |-> JSONstringify(signedContent)]]

\* The Authorization headers the client sends: none, another scheme, a token
\* it holds, its plain token with a content signature grafted on, or its
\* signed token altered.
Authorizations ==
    {NoAuth, [scheme |-> "Basic", token |-> NoToken]}
    \cup {Bearer(t) : t \in {authToken, signedToken} \ {NoToken}}
    \cup {Bearer(Alter(authToken, "graft")) : t \in {authToken} \ {NoToken}}
    \cup {Bearer(Alter(signedToken, how)) : how \in Alterations, t \in {signedToken} \ {NoToken}}

\* The clock may pass a second boundary between generateToken's two readings.
Skews == {0} \cup (IF now + 1 \in Instants THEN {1} ELSE {})

\* The post the client tries to update.
UpdateIds == {1}

Mutating == {"POST /api/posts", "PUT /api/posts/:id"}

Request(endpoint, auth, id, body) ==
    [endpoint |-> endpoint, auth |-> auth, id |-> id, body |-> body]

\* The record of a request, the stage that answered it, its response and the
\* token the response carries.
Exchange(req, stage, res, token) ==
    [endpoint |-> req.endpoint, auth |-> req.auth, id |-> req.id, body |-> req.body,
     at |-> now, stage |-> stage, status |-> res.status, error |-> res.error,
     message |-> res.message, details |-> res.details, token |-> token,
     replay |-> (req = lastAccepted)]

NoRequest == Request("", NoAuth, 0, <<>>)
\* no request is being answered
Idle ==
    [endpoint |-> "", auth |-> NoAuth, id |-> 0, body |-> <<>>, at |-> 0, stage |-> "",
     status |-> 0, error |-> "", message |-> "", details |-> NoDetails, token |-> NoToken,
     replay |-> FALSE]

\* no call has been made on the bank
NoCall ==
    [op |-> "", account |-> 0, other |-> 0, amount |-> [kind |-> "finite", n |-> 0],
     rate |-> 0, months |-> 0, threw |-> "", returned |-> <<>>,
     before |-> [accounts |-> <<>>, termDeposits |-> <<>>, nextAccountNumber |-> 1000,
                 nextTermDepositId |-> 1]]

\* null
Null == [kind |-> "null", n |-> 0]

\* the menu waits for an option
NoCommand == [option |-> "", session |-> Null, entered |-> Null, printed |-> ""]

\* ------------------------------------------------------------------- Init
Init ==
    /\ users = <<[id |-> 1, username |-> Str("admin"), email |-> Str("admin@example.com"),
                  password |-> bcryptHash(Str("password123"))]>>
    /\ posts = <<[id |-> 1, title |-> Str("Welcome Post"),
                  content |-> Str("Welcome to our API!"), authorId |-> 1],
                 [id |-> 2, title |-> Str("Security First"),
                  content |-> Str("All POST operations are secured with JWT tokens."),
                  authorId |-> 1]>>
    /\ nextUserId = 2
    /\ nextPostId = 3
    /\ now = 0
    /\ authToken = NoToken
    /\ signedToken = NoToken
    /\ signedContent = <<>>
    /\ loggedIn = {}
    /\ signer = 0
    /\ lastAccepted = NoRequest
    /\ last = Idle
    /\ hashing = <<>>
    /\ accounts = <<>>
    /\ termDeposits = <<>>
    /\ nextAccountNumber = 1000
    /\ nextTermDepositId = 1
    /\ outcome = NoCall
    /\ currentAccount = Null
    /\ command = NoCommand

\* The server answers one request at a time; the client waits for the answer.
Ready == last.endpoint = ""

\* --------------------------------------------------------------- endpoints
\* A variant of the early return that has taken a post id before it returns.
AnswerTakingPostId(req, stage, res) ==
    /\ last' = Exchange(req, stage, res, NoToken)
    /\ nextPostId' = nextPostId + 1
    /\ UNCHANGED <<users, posts, nextUserId, now, authToken, signedToken, signedContent,
                   loggedIn, signer>>

\* A request that ends without touching the store or issuing a token.
Answer(req, stage, res) ==
    /\ last' = Exchange(req, stage, res, NoToken)
    /\ UNCHANGED <<store, now, authToken, signedToken, signedContent, loggedIn, signer>>

\* POST /auth/register
Register(body) ==
    LET req == Request("POST /auth/register", NoAuth, 0, body)
        username == Get(body, "username")
        email == Get(body, "email")
        password == Get(body, "password")
    IN  /\ Ready
        /\ UNCHANGED lastAccepted
        /\ IF Falsy(username) \/ Falsy(email) \/ Falsy(password)
           THEN Answer(req, "handler", Response(400, "Missing required fields", ""))
           ELSE IF \E i \in 1..Len(users) :
                       users[i].username = username \/ users[i].email = email
           THEN Answer(req, "handler", Response(409, "User already exists",
                                                "Username or email is already taken"))
           ELSE \E skew \in Skews :
                LET newUser == [id |-> nextUserId, username |-> username, email |-> email,
                                password |-> bcryptHash(password)]
                IN  /\ users' = Append(users, newUser)
                    /\ nextUserId' = nextUserId + 1
                    /\ now' = now + skew
                    /\ loggedIn' = loggedIn \cup {newUser.id}
                    /\ last' = Exchange(req, "handler",
                                        Response(201, "", "User registered successfully"),
                                        generateToken(newUser, NoContent, now, now + skew))
                    /\ UNCHANGED <<posts, nextPostId, authToken, signedToken,
                                   signedContent, signer>>

\* list.splice(i, 1)
Splice(list, i) == SubSeq(list, 1, i - 1) \o SubSeq(list, i + 1, Len(list))

\* POST /auth/register up to its await: the validation and the existence
\* check, after which the handler is suspended until bcrypt has hashed the
\* password and other requests are served.
RegisterBegin(body) ==
    LET req == Request("POST /auth/register", NoAuth, 0, body)
        username == Get(body, "username")
        email == Get(body, "email")
        password == Get(body, "password")
    IN  /\ UNCHANGED lastAccepted
        /\ IF Falsy(username) \/ Falsy(email) \/ Falsy(password)
           THEN /\ Ready
                /\ Answer(req, "handler", Response(400, "Missing required fields", ""))
                /\ UNCHANGED hashing
           ELSE IF \E i \in 1..Len(users) :
                       users[i].username = username \/ users[i].email = email
           THEN /\ Ready
                /\ Answer(req, "handler", Response(409, "User already exists",
                                                   "Username or email is already taken"))
                /\ UNCHANGED hashing
           ELSE /\ nextUserId + Len(hashing) <= MaxUserId
                /\ hashing' = Append(hashing, body)
                /\ UNCHANGED <<store, now, authToken, signedToken, signedContent,
                               loggedIn, signer, last>>

\* POST /auth/register from its await on, for the i-th suspended registration:
\* the user is created and stored, and the response carries its token.
RegisterFinish(i) ==
    LET body == hashing[i]
        req == Request("POST /auth/register", NoAuth, 0, body)
    IN  /\ Ready
        /\ UNCHANGED lastAccepted
        /\ hashing' = Splice(hashing, i)
        /\ \E skew \in Skews :
                LET newUser == [id |-> nextUserId, username |-> Get(body, "username"),
                                email |-> Get(body, "email"),
                                password |-> bcryptHash(Get(body, "password"))]
                IN  /\ users' = Append(users, newUser)
                    /\ nextUserId' = nextUserId + 1
                    /\ now' = now + skew
                    /\ loggedIn' = loggedIn \cup {newUser.id}
                    /\ last' = Exchange(req, "handler",
                                        Response(201, "", "User registered successfully"),
                                        generateToken(newUser, NoContent, now, now + skew))
                    /\ UNCHANGED <<posts, nextPostId, authToken, signedToken,
                                   signedContent, signer>>

\* users.find(u => u.username === username), as the set of matching positions
FindUsername(username) == {i \in 1..Len(users) : users[i].username = username}
\* users.find(u => u.id === id), as the set of matching positions
FindUser(id) == {i \in 1..Len(users) : users[i].id = id}
\* posts.findIndex(p => p.id === id), as the set of matching positions
FindPost(id) == {i \in 1..Len(posts) : posts[i].id = id}
\* find and findIndex return the first match
First(S) == CHOOSE i \in S : \A j \in S : i <= j

\* POST /auth/login
Login(body) ==
    LET req == Request("POST /auth/login", NoAuth, 0, body)
        username == Get(body, "username")
        password == Get(body, "password")
    IN  /\ Ready
        /\ UNCHANGED lastAccepted
        /\ IF Falsy(username) \/ Falsy(password)
           THEN Answer(req, "handler", Response(400, "Missing credentials", ""))
           ELSE IF FindUsername(username) = {}
           THEN Answer(req, "handler", Response(401, "Invalid credentials",
                                                "Username or password is incorrect"))
           ELSE IF ~bcryptCompare(password, users[First(FindUsername(username))].password)
           THEN Answer(req, "handler", Response(401, "Invalid credentials",
                                                "Username or password is incorrect"))
           ELSE \E skew \in Skews :
                LET user == users[First(FindUsername(username))]
                IN  /\ now' = now + skew
                    /\ loggedIn' = loggedIn \cup {user.id}
                    /\ last' = Exchange(req, "handler",
                                        Response(200, "", "Login successful"),
                                        generateToken(user, NoContent, now, now + skew))
                    /\ UNCHANGED <<store, authToken, signedToken, signedContent, signer>>

\* POST /auth/sign-content
SignContent(auth, body) ==
    LET req == Request("POST /auth/sign-content", auth, 0, body)
        checked == verifyToken(auth, now)
    IN  /\ Ready
        /\ UNCHANGED lastAccepted
        /\ IF ~checked.next
           THEN Answer(req, "verifyToken", checked.res)
           ELSE IF KeyCount(body) = 0
           THEN Answer(req, "handler", Response(400, "No content provided",
                           "Content to be signed must be provided in request body"))
           ELSE IF FindUser(checked.user.userId) = {}
           THEN Answer(req, "handler", Response(404, "User not found",
                           "User associated with token no longer exists"))
           ELSE \E skew \in Skews :
                LET user == users[First(FindUser(checked.user.userId))]
                IN  /\ signer' = checked.user.userId
                    /\ now' = now + skew
                    /\ last' = Exchange(req, "handler",
                                        Response(200, "", "Content signed successfully"),
                                        generateToken(user, <<body>>, now, now + skew))
                    /\ UNCHANGED <<store, authToken, signedToken, signedContent, loggedIn>>

\* The middleware chain verifyToken, verifyContentSignature in front of a
\* mutating handler: the stage that ends the request and its response, or
\* stage "handler" with req.user.
Chain(auth, body) ==
    LET checked == verifyToken(auth, now)
    IN  IF ~checked.next
        THEN [stage |-> "verifyToken", user |-> NoUser, res |-> checked.res]
        ELSE LET content == verifyContentSignature(checked.user, body, now)
             IN  IF ~content.next
                 THEN [stage |-> "verifyContentSignature", user |-> NoUser,
                       res |-> content.res]
                 ELSE [stage |-> "handler", user |-> checked.user,
                       res |-> Response(0, "", "")]

\* POST /api/posts
CreatePost(auth, body) ==
    LET req == Request("POST /api/posts", auth, 0, body)
        chain == Chain(auth, body)
        title == Get(body, "title")
        content == Get(body, "content")
    IN  /\ Ready
        /\ IF chain.stage # "handler"
           THEN Answer(req, chain.stage, chain.res) /\ UNCHANGED lastAccepted
           ELSE /\ lastAccepted' = req
                /\ IF Falsy(title) \/ Falsy(content)
                   THEN Answer(req, "handler", Response(400, "Missing required fields", ""))
                   ELSE /\ nextPostId <= MaxPostId
                        /\ posts' = Append(posts, [id |-> nextPostId, title |-> title,
                                                   content |-> content,
                                                   authorId |-> chain.user.userId])
                        /\ nextPostId' = nextPostId + 1
                        /\ last' = Exchange(req, "handler",
                                            Response(201, "", "Post created successfully"),
                                            NoToken)
                        /\ UNCHANGED <<users, nextUserId, now, authToken, signedToken,
                                       signedContent, loggedIn, signer>>

\* PUT /api/posts/:id
UpdatePost(auth, id, body) ==
    LET req == Request("PUT /api/posts/:id", auth, id, body)
        chain == Chain(auth, body)
        title == Get(body, "title")
        content == Get(body, "content")
    IN  /\ Ready
        /\ IF chain.stage # "handler"
           THEN Answer(req, chain.stage, chain.res) /\ UNCHANGED lastAccepted
           ELSE /\ lastAccepted' = req
                /\ IF Falsy(title) \/ Falsy(content)
                   THEN Answer(req, "handler", Response(400, "Missing required fields", ""))
                   ELSE IF FindPost(id) = {}
                   THEN Answer(req, "handler", Response(404, "Post not found", ""))
                   ELSE IF posts[First(FindPost(id))].authorId # chain.user.userId
                   THEN Answer(req, "handler", Response(403, "Access denied",
                                   "You can only update your own posts"))
                   ELSE /\ posts' = [posts EXCEPT ![First(FindPost(id))] =
                                        [@ EXCEPT !.title = title, !.content = content]]
                        /\ last' = Exchange(req, "handler",
                                            Response(200, "", "Post updated successfully"),
                                            NoToken)
                        /\ UNCHANGED <<users, nextUserId, nextPostId, now, authToken,
                                       signedToken, signedContent, loggedIn, signer>>

\* A variant of DELETE /api/posts/:id without the ownership check.
DeletePostOfAnyone(auth, id, body) ==
    LET req == Request("DELETE /api/posts/:id", auth, id, body)
        checked == verifyToken(auth, now)
    IN  /\ Ready
        /\ UNCHANGED lastAccepted
        /\ IF ~checked.next
           THEN Answer(req, "verifyToken", checked.res)
           ELSE IF FindPost(id) = {}
           THEN Answer(req, "handler", Response(404, "Post not found", ""))
           ELSE /\ posts' = Splice(posts, First(FindPost(id)))
                /\ last' = Exchange(req, "handler",
                                    Response(200, "", "Post deleted successfully"),
                                    NoToken)
                /\ UNCHANGED <<users, nextUserId, nextPostId, now, authToken,
                               signedToken, signedContent, loggedIn, signer>>

\* A variant of DELETE /api/posts/:id that hands the deleted post's place
\* back to the id counter.
DeletePostReleasingId(auth, id, body) ==
    LET req == Request("DELETE /api/posts/:id", auth, id, body)
        checked == verifyToken(auth, now)
    IN  /\ Ready
        /\ UNCHANGED lastAccepted
        /\ IF ~checked.next
           THEN Answer(req, "verifyToken", checked.res)
           ELSE IF FindPost(id) = {}
           THEN Answer(req, "handler", Response(404, "Post not found", ""))
           ELSE IF posts[First(FindPost(id))].authorId # checked.user.userId
           THEN Answer(req, "handler", Response(403, "Access denied",
                           "You can only delete your own posts"))
           ELSE /\ posts' = Splice(posts, First(FindPost(id)))
                /\ nextPostId' = nextPostId - 1
                /\ last' = Exchange(req, "handler",
                                    Response(200, "", "Post deleted successfully"),
                                    NoToken)
                /\ UNCHANGED <<users, nextUserId, now, authToken,
                               signedToken, signedContent, loggedIn, signer>>

\* DELETE /api/posts/:id, behind verifyToken only
DeletePost(auth, id, body) ==
    LET req == Request("DELETE /api/posts/:id", auth, id, body)
        checked == verifyToken(auth, now)
    IN  /\ Ready
        /\ UNCHANGED lastAccepted
        /\ IF ~checked.next
           THEN Answer(req, "verifyToken", checked.res)
           ELSE IF FindPost(id) = {}
           THEN Answer(req, "handler", Response(404, "Post not found", ""))
           ELSE IF posts[First(FindPost(id))].authorId # checked.user.userId
           THEN Answer(req, "handler", Response(403, "Access denied",
                           "You can only delete your own posts"))
           ELSE /\ posts' = Splice(posts, First(FindPost(id)))
                /\ last' = Exchange(req, "handler",
                                    Response(200, "", "Post deleted successfully"),
                                    NoToken)
                /\ UNCHANGED <<users, nextUserId, nextPostId, now, authToken,
                               signedToken, signedContent, loggedIn, signer>>

\* GET /api/users, behind verifyToken only
GetUsers(auth) ==
    LET req == Request("GET /api/users", auth, 0, <<>>)
        checked == verifyToken(auth, now)
    IN  /\ Ready
        /\ UNCHANGED lastAccepted
        /\ IF ~checked.next
           THEN Answer(req, "verifyToken", checked.res)
           ELSE Answer(req, "handler", Response(200, "", "Users retrieved successfully"))

\* GET /api/users/me, behind verifyToken only
GetMe(auth) ==
    LET req == Request("GET /api/users/me", auth, 0, <<>>)
        checked == verifyToken(auth, now)
    IN  /\ Ready
        /\ UNCHANGED lastAccepted
        /\ IF ~checked.next
           THEN Answer(req, "verifyToken", checked.res)
           ELSE IF FindUser(checked.user.userId) = {}
           THEN Answer(req, "handler", Response(404, "User not found",
                           "User associated with token no longer exists"))
           ELSE Answer(req, "handler",
                       Response(200, "", "User profile retrieved successfully"))

\* GET /api/posts/:id, a public endpoint
GetPost(id) ==
    LET req == Request("GET /api/posts/:id", NoAuth, id, <<>>)
    IN  /\ Ready
        /\ UNCHANGED lastAccepted
        /\ IF FindPost(id) = {}
           THEN Answer(req, "handler", Response(404, "Post not found", ""))
           ELSE Answer(req, "handler", Response(200, "", "Post retrieved successfully"))

\* The client reads the response: it keeps the token of a login or a
\* registration as authToken and the token of sign-content, with the content
\* it had sent, as signedToken and signedContent.
Receive ==
    /\ ~Ready
    /\ last' = Idle
    /\ authToken' = IF last.endpoint \in {"POST /auth/register", "POST /auth/login"}
                       /\ last.token # NoToken
                    THEN last.token ELSE authToken
    /\ signedToken' = IF last.endpoint = "POST /auth/sign-content" /\ last.token # NoToken
                      THEN last.token ELSE signedToken
    /\ signedContent' = IF last.endpoint = "POST /auth/sign-content" /\ last.token # NoToken
                        THEN last.body ELSE signedContent
    /\ lastAccepted' = IF lastAccepted.auth.token \in {authToken', signedToken'}
                       THEN lastAccepted ELSE NoRequest
    /\ UNCHANGED <<store, now, loggedIn, signer>>

\* Time passes between requests. The client's reading of a response does not
\* look at the clock, so time that passes before the reading is time that
\* passes after it.
Tick ==
    /\ Ready
    /\ \E t \in Instants : t > now /\ now' = t
    /\ UNCHANGED <<store, authToken, signedToken, signedContent, loggedIn, signer,
                   lastAccepted, last>>

\* One client session of the seeded user: login, sign-content, create and
\* update, with the clock passing in between. Registration adds a second
\* principal and is left to a specification of its own.
Next ==
    \/ \E body \in Accounts : Login(body) /\ UNCHANGED <<hashing, bank, app>>
    \/ \E auth \in Authorizations, body \in Bodies : SignContent(auth, body)
            /\ UNCHANGED <<hashing, bank, app>>
    \/ \E auth \in Authorizations, body \in Bodies : CreatePost(auth, body)
            /\ UNCHANGED <<hashing, bank, app>>
    \/ \E auth \in Authorizations, id \in UpdateIds, body \in Bodies :
            UpdatePost(auth, id, body) /\ UNCHANGED <<hashing, bank, app>>
    \/ Receive /\ UNCHANGED <<hashing, bank, app>>
    \/ Tick /\ UNCHANGED <<hashing, bank, app>>

Spec == Init /\ [][Next]_vars

\* ----------------------------------------------------- two principals
\* The seeded user and a user who registers share the server: each logs in,
\* has content signed, creates, updates and deletes posts and reads the user
\* list, in any interleaving, within the second after the server started.
\* The client presents no header, a token it holds, or its signed token with
\* exp pushed ahead.
AccessAccounts ==
    {Account("admin", "admin@example.com", "password123"),
     Account("testuser", "test@example.com", "testpassword123")}
AccessBodies ==
    {<<>>, <<Field("title", Str("A")), Field("content", Str("B")), Field("n", Num("1"))>>}
AccessAuthorizations ==
    {NoAuth}
    \cup {Bearer(t) : t \in {authToken, signedToken} \ {NoToken}}
    \cup {Bearer(Alter(signedToken, "payload")) : t \in {signedToken} \ {NoToken}}
\* a seeded post and the first post created
AccessIds == {1, 3}

NextAccess ==
    \/ \E body \in AccessAccounts : Register(body) /\ UNCHANGED <<hashing, bank, app>>
    \/ \E body \in AccessAccounts : Login(body) /\ UNCHANGED <<hashing, bank, app>>
    \/ \E auth \in AccessAuthorizations, body \in AccessBodies : SignContent(auth, body)
            /\ UNCHANGED <<hashing, bank, app>>
    \/ \E auth \in AccessAuthorizations, body \in AccessBodies : CreatePost(auth, body)
            /\ UNCHANGED <<hashing, bank, app>>
    \/ \E auth \in AccessAuthorizations, id \in AccessIds, body \in AccessBodies :
            UpdatePost(auth, id, body) /\ UNCHANGED <<hashing, bank, app>>
    \/ \E auth \in AccessAuthorizations, id \in AccessIds, body \in AccessBodies :
            DeletePost(auth, id, body) /\ UNCHANGED <<hashing, bank, app>>
    \/ \E auth \in AccessAuthorizations : GetUsers(auth) /\ UNCHANGED <<hashing, bank, app>>
    \/ \E auth \in AccessAuthorizations : GetMe(auth) /\ UNCHANGED <<hashing, bank, app>>
    \/ \E id \in AccessIds : GetPost(id) /\ UNCHANGED <<hashing, bank, app>>
    \/ Receive /\ UNCHANGED <<hashing, bank, app>>

SpecAccess == Init /\ [][NextAccess]_vars

\* ------------------------------------------------------- tokens that age
\* The seeded user logs in, has one of two posts signed and calls every
\* protected endpoint with the tokens it holds and either post as payload,
\* while the clock runs past the tokens' exp.
ExpiryAccounts == {Account("admin", "admin@example.com", "password123")}
ExpiryBodies ==
    {<<Field("title", Str("A")), Field("content", Str("B"))>>,
     <<Field("title", Str("A")), Field("content", Str("C"))>>}
ExpiryAuthorizations == {Bearer(t) : t \in {authToken, signedToken} \ {NoToken}}

NextExpiry ==
    \/ \E body \in ExpiryAccounts : Login(body) /\ UNCHANGED <<hashing, bank, app>>
    \/ \E auth \in ExpiryAuthorizations, body \in ExpiryBodies : SignContent(auth, body)
            /\ UNCHANGED <<hashing, bank, app>>
    \/ \E auth \in ExpiryAuthorizations, body \in ExpiryBodies : CreatePost(auth, body)
            /\ UNCHANGED <<hashing, bank, app>>
    \/ \E auth \in ExpiryAuthorizations, id \in UpdateIds, body \in ExpiryBodies :
            UpdatePost(auth, id, body) /\ UNCHANGED <<hashing, bank, app>>
    \/ \E auth \in ExpiryAuthorizations, id \in UpdateIds, body \in ExpiryBodies :
            DeletePost(auth, id, body) /\ UNCHANGED <<hashing, bank, app>>
    \/ \E auth \in ExpiryAuthorizations : GetUsers(auth) /\ UNCHANGED <<hashing, bank, app>>
    \/ \E auth \in ExpiryAuthorizations : GetMe(auth) /\ UNCHANGED <<hashing, bank, app>>
    \/ Receive /\ UNCHANGED <<hashing, bank, app>>
    \/ Tick /\ UNCHANGED <<hashing, bank, app>>

SpecExpiry == Init /\ [][NextExpiry]_vars

\* ------------------------------------------------- envelopes and field order
\* The seeded user has posts signed whose fields come in either order, under
\* ordinary names and under array-index names, and presents them in either
\* order. Besides its own tokens the client presents the inner
\* contentSignature as a bearer token, and tokens made by someone who holds
\* the auth key but not the content key: the signed token re-signed with
\* another signedContent claim, and one whose envelope is signed under the
\* auth key.
ContentBodies ==
    {<<Field("title", Str("A")), Field("content", Str("B"))>>,
     <<Field("content", Str("B")), Field("title", Str("A"))>>,
     <<Field("1", Str("A")), Field("2", Str("B"))>>,
     <<Field("2", Str("B")), Field("1", Str("A"))>>}

Rewrap(token, body) ==
    jwtSign([token.payload EXCEPT !.signedContent = JSONstringify(body)], JWT_SECRET)
Counterfeit(token, body) ==
    jwtSign([token.payload EXCEPT
                 !.contentSignature = jwtSign([content |-> JSONstringify(body), iat |-> now],
                                              JWT_SECRET),
                 !.signedContent = JSONstringify(body)],
            JWT_SECRET)

OwnAuthorizations ==
    {Bearer(t) : t \in {authToken, signedToken} \ {NoToken}}
    \cup {Bearer(t.payload.contentSignature) : t \in {signedToken} \ {NoToken}}
ContentAuthorizations ==
    OwnAuthorizations
    \cup {Bearer(Rewrap(t, body)) : t \in {signedToken} \ {NoToken}, body \in ContentBodies}
    \cup {Bearer(Counterfeit(t, body)) : t \in {signedToken} \ {NoToken},
                                         body \in ContentBodies}

NextContent ==
    \/ \E body \in ExpiryAccounts : Login(body) /\ UNCHANGED <<hashing, bank, app>>
    \/ \E auth \in OwnAuthorizations, body \in ContentBodies : SignContent(auth, body)
            /\ UNCHANGED <<hashing, bank, app>>
    \/ \E auth \in ContentAuthorizations, body \in ContentBodies : CreatePost(auth, body)
            /\ UNCHANGED <<hashing, bank, app>>
    \/ \E auth \in ContentAuthorizations, id \in UpdateIds, body \in ContentBodies :
            UpdatePost(auth, id, body) /\ UNCHANGED <<hashing, bank, app>>
    \/ Receive /\ UNCHANGED <<hashing, bank, app>>

SpecContent == Init /\ [][NextContent]_vars

\* ------------------------------------------- registrations that overlap
\* Clients register while other registrations are still being hashed: the
\* seeded user's name, a new name (by more than one client) and a request
\* without a username; they log in and read the responses.
NextRegister ==
    \/ \E body \in Accounts : RegisterBegin(body) /\ UNCHANGED <<bank, app>>
    \/ \E i \in 1..Len(hashing) : RegisterFinish(i) /\ UNCHANGED <<bank, app>>
    \/ \E body \in Accounts : Login(body) /\ UNCHANGED <<hashing, bank, app>>
    \/ Receive /\ UNCHANGED <<hashing, bank, app>>

SpecRegister == Init /\ [][NextRegister]_vars

\* ================================================================ the bank
\* The banking application of src/account.js and src/bank.js, with the
\* TermDeposit class as the README lists it. An amount is a JavaScript
\* number: a whole number of dollars (far below 2^53, so that sums and
\* differences are exact), Infinity, -Infinity or NaN. The timestamp of a
\* history entry is left out: no operation of the bank reads it. A date is
\* the clock's reading, in seconds.
Number(n) == [kind |-> "finite", n |-> n]
Infinity == [kind |-> "Infinity", n |-> 0]
NegInfinity == [kind |-> "-Infinity", n |-> 0]
NaN == [kind |-> "NaN", n |-> 0]

\* -a
Negate(a) ==
    CASE a.kind = "finite" -> Number(0 - a.n)
      [] a.kind = "Infinity" -> NegInfinity
      [] a.kind = "-Infinity" -> Infinity
      [] OTHER -> NaN

\* a + b
Plus(a, b) ==
    IF a.kind = "NaN" \/ b.kind = "NaN" THEN NaN
    ELSE IF a.kind = "finite" /\ b.kind = "finite" THEN Number(a.n + b.n)
    ELSE IF a.kind = "finite" THEN b
    ELSE IF b.kind = "finite" \/ b = a THEN a
    ELSE NaN

\* a - b
Minus(a, b) == Plus(a, Negate(b))

\* a > b, false when either is NaN
Greater(a, b) ==
    /\ a.kind # "NaN" /\ b.kind # "NaN"
    /\ \/ a.kind = "Infinity" /\ b.kind # "Infinity"
       \/ b.kind = "-Infinity" /\ a.kind # "-Infinity"
       \/ a.kind = "finite" /\ b.kind = "finite" /\ a.n > b.n

\* a <= b, false when either is NaN
AtMost(a, b) == a.kind # "NaN" /\ b.kind # "NaN" /\ ~Greater(a, b)

\* ------------------------------------------------------------- Account
\* new Account(accountNumber, initialBalance)
NewAccount(accountNumber, initialBalance) ==
    [accountNumber |-> accountNumber, balance |-> initialBalance, transactions |-> <<>>]

\* An entry of the transaction history; ref is the toAccount, fromAccount or
\* termDepositId of the entries that carry one, and 0 otherwise.
Entry(type, amount, balance, ref) ==
    [type |-> type, amount |-> amount, balance |-> balance, ref |-> ref]

\* What a method did: the error it threw ("" when it returned) and the
\* account as the method left it.
Threw(message, account) == [threw |-> message, account |-> account]
Done(account) == [threw |-> "", account |-> account]

\* A variant of deposit that lets an amount of zero through.
AccountDepositNonNegative(account, amount) ==
    IF Greater(Number(0), amount)
    THEN Threw("Deposit amount must be positive", account)
    ELSE LET balance == Plus(account.balance, amount)
         IN  Done([account EXCEPT
                       !.balance = balance,
                       !.transactions = Append(@, Entry("deposit", amount, balance, 0))])

\* Account.deposit(amount); it returns the new balance
AccountDeposit(account, amount) ==
    IF AtMost(amount, Number(0))
    THEN Threw("Deposit amount must be positive", account)
    ELSE LET balance == Plus(account.balance, amount)
         IN  Done([account EXCEPT
                       !.balance = balance,
                       !.transactions = Append(@, Entry("deposit", amount, balance, 0))])

\* A variant of withdraw without the funds check.
AccountWithdrawOverdrawing(account, amount) ==
    IF AtMost(amount, Number(0))
    THEN Threw("Withdrawal amount must be positive", account)
    ELSE LET balance == Minus(account.balance, amount)
         IN  Done([account EXCEPT
                       !.balance = balance,
                       !.transactions = Append(@, Entry("withdrawal", amount, balance, 0))])

\* A variant of withdraw that takes the amount before it checks the funds.
AccountWithdrawThenCheck(account, amount) ==
    IF AtMost(amount, Number(0))
    THEN Threw("Withdrawal amount must be positive", account)
    ELSE LET balance == Minus(account.balance, amount)
         IN  IF Greater(amount, account.balance)
             THEN Threw("Insufficient funds", [account EXCEPT !.balance = balance])
             ELSE Done([account EXCEPT
                           !.balance = balance,
                           !.transactions =
                               Append(@, Entry("withdrawal", amount, balance, 0))])

\* A variant of withdraw that writes no history entry.
AccountWithdrawUnlogged(account, amount) ==
    IF AtMost(amount, Number(0))
    THEN Threw("Withdrawal amount must be positive", account)
    ELSE IF Greater(amount, account.balance)
    THEN Threw("Insufficient funds", account)
    ELSE Done([account EXCEPT !.balance = Minus(account.balance, amount)])

\* Account.withdraw(amount); it returns the new balance
AccountWithdraw(account, amount) ==
    IF AtMost(amount, Number(0))
    THEN Threw("Withdrawal amount must be positive", account)
    ELSE IF Greater(amount, account.balance)
    THEN Threw("Insufficient funds", account)
    ELSE LET balance == Minus(account.balance, amount)
         IN  Done([account EXCEPT
                       !.balance = balance,
                       !.transactions = Append(@, Entry("withdrawal", amount, balance, 0))])

\* --------------------------------------------------------- TermDeposit
\* An interest rate is held in tenths of a percent a year: 45 is the 4.5 of
\* the README's example.
PerCent == 10

\* date.setMonth(date.getMonth() + months), with every month taken as 30 days
Month == 30 * TTL
AddMonths(date, months) == date + months * Month

\* A variant of the constructor that makes a closed term deposit.
NewTermDepositClosed(accountNumber, principal, interestRate, termMonths) ==
    [accountNumber |-> accountNumber, principal |-> principal,
     interestRate |-> interestRate, termMonths |-> termMonths,
     startDate |-> now, maturityDate |-> AddMonths(now, termMonths),
     isActive |-> FALSE]

\* new TermDeposit(accountNumber, principal, interestRate, termMonths)
NewTermDeposit(accountNumber, principal, interestRate, termMonths) ==
    [accountNumber |-> accountNumber, principal |-> principal,
     interestRate |-> interestRate, termMonths |-> termMonths,
     startDate |-> now, maturityDate |-> AddMonths(now, termMonths),
     isActive |-> TRUE]

\* A variant of calculateMaturityAmount that takes the annual rate for every month.
calculateMaturityAmountMonthly(td) ==
    LET whole == 100 * PerCent
        parts == whole + td.interestRate * td.termMonths
        p == td.principal
    IN  CASE p.kind = "finite" -> Number((p.n * parts) \div whole)
          [] p.kind = "NaN" -> NaN
          [] OTHER -> IF parts > 0 THEN p
                      ELSE IF parts < 0 THEN Negate(p)
                      ELSE NaN

\* calculateMaturityAmount(): principal * (1 + (interestRate / 100 / 12) * termMonths),
\* computed as principal * (whole + interestRate * termMonths) / whole, where
\* whole is 100 * 12 in the unit of the rate; the principals, rates and terms
\* on offer make the quotient a whole number, which is also what the
\* floating-point expression of the source evaluates to for them.
calculateMaturityAmount(td) ==
    LET whole == 100 * 12 * PerCent
        parts == whole + td.interestRate * td.termMonths
        p == td.principal
    IN  CASE p.kind = "finite" -> Number((p.n * parts) \div whole)
          [] p.kind = "NaN" -> NaN
          [] OTHER -> IF parts > 0 THEN p
                      ELSE IF parts < 0 THEN Negate(p)
                      ELSE NaN

\* A variant of close() that pays the principal back without interest.
closePayingPrincipal(td) ==
    IF ~td.isActive
    THEN [threw |-> "Term deposit is already closed", termDeposit |-> td,
          returned |-> Number(0)]
    ELSE [threw |-> "", termDeposit |-> [td EXCEPT !.isActive = FALSE],
          returned |-> td.principal]

\* A variant of close() that closes a closed term deposit again.
closeAgain(td) ==
    [threw |-> "", termDeposit |-> [td EXCEPT !.isActive = FALSE],
     returned |-> calculateMaturityAmount(td)]

\* close(): the error it threw ("" when it returned), the term deposit as it
\* left it and the amount it returned
close(td) ==
    IF ~td.isActive
    THEN [threw |-> "Term deposit is already closed", termDeposit |-> td,
          returned |-> Number(0)]
    ELSE [threw |-> "", termDeposit |-> [td EXCEPT !.isActive = FALSE],
          returned |-> calculateMaturityAmount(td)]

\* isMatured(): new Date() >= this.maturityDate
isMatured(td) == now >= td.maturityDate

\* ------------------------------------------------------------------ Bank
\* The call made on the bank and how it ended: the message of the error
\* thrown ("" when the call returned), the values returned, and the bank as
\* the call found it.
Call(op, account, other, amount, rate, months) ==
    [op |-> op, account |-> account, other |-> other, amount |-> amount,
     rate |-> rate, months |-> months]
Outcome(call, threw, returned) ==
    [op |-> call.op, account |-> call.account, other |-> call.other,
     amount |-> call.amount, rate |-> call.rate, months |-> call.months,
     threw |-> threw, returned |-> returned,
     before |-> [accounts |-> accounts, termDeposits |-> termDeposits,
                 nextAccountNumber |-> nextAccountNumber,
                 nextTermDepositId |-> nextTermDepositId]]

\* the history entries written so far
RECURSIVE EntriesOf(_)
EntriesOf(numbers) ==
    IF numbers = {} THEN 0
    ELSE LET n == CHOOSE n \in numbers : TRUE
         IN  Len(accounts[n].transactions) + EntriesOf(numbers \ {n})
Logged == EntriesOf(DOMAIN accounts)

\* the rest of the module's state, which the bank does not touch
server == <<users, posts, nextUserId, nextPostId, now, authToken, signedToken,
            signedContent, loggedIn, signer, lastAccepted, last, hashing>>

\* The bank serves one call at a time; the caller takes the result before
\* it calls again.
Called == outcome.op # ""

\* The caller takes what the call returned or catches what it threw.
Return ==
    /\ Called
    /\ outcome' = NoCall
    /\ UNCHANGED <<accounts, termDeposits, nextAccountNumber, nextTermDepositId>>

\* A call that throws before it has changed anything.
Throw(call, message) ==
    /\ outcome' = Outcome(call, message, <<>>)
    /\ UNCHANGED <<accounts, termDeposits, nextAccountNumber, nextTermDepositId>>

\* A variant of createAccount that leaves nextAccountNumber as it is.
CreateAccountSameNumber(initialBalance) ==
    LET call == Call("createAccount", 0, 0, initialBalance, 0, 0)
        accountNumber == nextAccountNumber
    IN  /\ ~Called
        /\ nextAccountNumber < 1000 + MaxAccounts
        /\ accounts' = (accountNumber :> NewAccount(accountNumber, initialBalance)) @@ accounts
        /\ outcome' = Outcome(call, "", <<Number(accountNumber)>>)
        /\ UNCHANGED <<termDeposits, nextAccountNumber, nextTermDepositId>>

\* Bank.createAccount(initialBalance); accounts.set puts the account under
\* its number, in the place of any account that had it
CreateAccount(initialBalance) ==
    LET call == Call("createAccount", 0, 0, initialBalance, 0, 0)
        accountNumber == nextAccountNumber
    IN  /\ ~Called
        /\ nextAccountNumber < 1000 + MaxAccounts
        /\ nextAccountNumber' = nextAccountNumber + 1
        /\ accounts' = (accountNumber :> NewAccount(accountNumber, initialBalance)) @@ accounts
        /\ outcome' = Outcome(call, "", <<Number(accountNumber)>>)
        /\ UNCHANGED <<termDeposits, nextTermDepositId>>

\* Bank.deposit(accountNumber, amount)
Deposit(accountNumber, amount) ==
    LET call == Call("deposit", accountNumber, 0, amount, 0, 0)
    IN  /\ ~Called
        /\ IF accountNumber \notin DOMAIN accounts
           THEN Throw(call, "Account not found")
           ELSE LET did == AccountDeposit(accounts[accountNumber], amount)
                IN  /\ accounts' = [accounts EXCEPT ![accountNumber] = did.account]
                    /\ outcome' = Outcome(call, did.threw,
                                          IF did.threw = "" THEN <<did.account.balance>>
                                          ELSE <<>>)
                    /\ UNCHANGED <<termDeposits, nextAccountNumber, nextTermDepositId>>

\* Bank.withdraw(accountNumber, amount)
Withdraw(accountNumber, amount) ==
    LET call == Call("withdraw", accountNumber, 0, amount, 0, 0)
    IN  /\ ~Called
        /\ IF accountNumber \notin DOMAIN accounts
           THEN Throw(call, "Account not found")
           ELSE LET did == AccountWithdraw(accounts[accountNumber], amount)
                IN  /\ accounts' = [accounts EXCEPT ![accountNumber] = did.account]
                    /\ outcome' = Outcome(call, did.threw,
                                          IF did.threw = "" THEN <<did.account.balance>>
                                          ELSE <<>>)
                    /\ UNCHANGED <<termDeposits, nextAccountNumber, nextTermDepositId>>

\* Bank.transfer(fromAccountNumber, toAccountNumber, amount); an error thrown
\* by the deposit leaves the withdrawal done.
Transfer(fromAccountNumber, toAccountNumber, amount) ==
    LET call == Call("transfer", fromAccountNumber, toAccountNumber, amount, 0, 0)
    IN  /\ ~Called
        /\ IF fromAccountNumber = toAccountNumber
           THEN Throw(call, "Cannot transfer to the same account")
           ELSE IF fromAccountNumber \notin DOMAIN accounts
                   \/ toAccountNumber \notin DOMAIN accounts
           THEN Throw(call, "Account not found")
           ELSE LET withdrawn == AccountWithdraw(accounts[fromAccountNumber], amount)
                    deposited == AccountDeposit(accounts[toAccountNumber], amount)
                    fromAccount ==
                        [withdrawn.account EXCEPT
                            !.transactions =
                                Append(@, Entry("transfer_out", amount,
                                                withdrawn.account.balance, toAccountNumber))]
                    toAccount ==
                        [deposited.account EXCEPT
                            !.transactions =
                                Append(@, Entry("transfer_in", amount,
                                                deposited.account.balance, fromAccountNumber))]
                IN  /\ UNCHANGED <<termDeposits, nextAccountNumber, nextTermDepositId>>
                    /\ IF withdrawn.threw # ""
                       THEN /\ outcome' = Outcome(call, withdrawn.threw, <<>>)
                            /\ accounts' = [accounts EXCEPT
                                               ![fromAccountNumber] = withdrawn.account]
                       ELSE IF deposited.threw # ""
                       THEN /\ outcome' = Outcome(call, deposited.threw, <<>>)
                            /\ accounts' = [accounts EXCEPT
                                               ![fromAccountNumber] = withdrawn.account]
                       ELSE /\ outcome' = Outcome(call, "", <<fromAccount.balance,
                                                             toAccount.balance>>)
                            /\ accounts' = [accounts EXCEPT
                                               ![fromAccountNumber] = fromAccount,
                                               ![toAccountNumber] = toAccount]

\* Bank.openTermDeposit(accountNumber, amount, interestRate, termMonths)
OpenTermDeposit(accountNumber, amount, interestRate, termMonths) ==
    LET call == Call("openTermDeposit", accountNumber, 0, amount, interestRate, termMonths)
    IN  /\ ~Called
        /\ IF accountNumber \notin DOMAIN accounts
           THEN Throw(call, "Account not found")
           ELSE IF Greater(amount, accounts[accountNumber].balance)
           THEN Throw(call, "Insufficient funds in account")
           ELSE LET withdrawn == AccountWithdraw(accounts[accountNumber], amount)
                    termDepositId == nextTermDepositId
                    account ==
                        [withdrawn.account EXCEPT
                            !.transactions =
                                Append(@, Entry("term_deposit_opened", amount,
                                                withdrawn.account.balance, termDepositId))]
                IN  IF withdrawn.threw # ""
                    THEN /\ outcome' = Outcome(call, withdrawn.threw, <<>>)
                         /\ accounts' = [accounts EXCEPT ![accountNumber] = withdrawn.account]
                         /\ UNCHANGED <<termDeposits, nextAccountNumber, nextTermDepositId>>
                    ELSE /\ nextTermDepositId' = nextTermDepositId + 1
                         /\ termDeposits' =
                                (termDepositId :> NewTermDeposit(termDepositId, amount,
                                                                 interestRate, termMonths))
                                @@ termDeposits
                         /\ accounts' = [accounts EXCEPT ![accountNumber] = account]
                         /\ outcome' = Outcome(call, "", <<Number(termDepositId)>>)
                         /\ UNCHANGED nextAccountNumber

\* Bank.closeTermDeposit(termDepositId, accountNumber); TermDeposit.close()
\* has cleared isActive by the time the deposit into the account can throw.
CloseTermDeposit(termDepositId, accountNumber) ==
    LET call == Call("closeTermDeposit", accountNumber, termDepositId, Number(0), 0, 0)
    IN  /\ ~Called
        /\ IF termDepositId \notin DOMAIN termDeposits
           THEN Throw(call, "Term deposit not found")
           ELSE IF accountNumber \notin DOMAIN accounts
           THEN Throw(call, "Account not found")
           ELSE LET closed == close(termDeposits[termDepositId])
                    maturityAmount == closed.returned
                    deposited == AccountDeposit(accounts[accountNumber], maturityAmount)
                    account ==
                        [deposited.account EXCEPT
                            !.transactions =
                                Append(@, Entry("term_deposit_closed", maturityAmount,
                                                deposited.account.balance, termDepositId))]
                IN  /\ termDeposits' = [termDeposits EXCEPT ![termDepositId] = closed.termDeposit]
                    /\ UNCHANGED <<nextAccountNumber, nextTermDepositId>>
                    /\ IF closed.threw # ""
                       THEN /\ outcome' = Outcome(call, closed.threw, <<>>)
                            /\ UNCHANGED accounts
                       ELSE IF deposited.threw # ""
                       THEN /\ outcome' = Outcome(call, deposited.threw, <<>>)
                            /\ UNCHANGED accounts
                       ELSE /\ outcome' = Outcome(call, "", <<maturityAmount>>)
                            /\ accounts' = [accounts EXCEPT ![accountNumber] = account]

\* --------------------------------------------------------- a bank session
\* A session stops calling once MaxEntries history entries are written.
\* The amounts a caller passes: negative, zero, positive, and the Infinity
\* that parseFloat reads from "Infinity".
Amounts == {Number(-1), Number(0), Number(1), Infinity}
\* Opening balances, as the menu's createAccount lets them through.
InitialBalances == {Number(0), Number(2)}
\* The account numbers a caller names: those the bank can have handed out and one more.
AccountNumbers == 1000..(1000 + MaxAccounts)
\* The term deposit ids a caller names.
TermDepositIds == 1..2
\* Rate and term (months): doubling in a month (1200 percent a year), and a
\* rate that takes all the principal.
Terms == {[rate |-> 1200 * PerCent, months |-> 1], [rate |-> -1200 * PerCent, months |-> 1]}

NextBank ==
    \/ \E initialBalance \in InitialBalances :
            CreateAccount(initialBalance) /\ UNCHANGED <<server, app>>
    \/ /\ ~Called /\ Logged < MaxEntries
       /\ \E n \in AccountNumbers, amount \in Amounts :
              Deposit(n, amount) /\ UNCHANGED <<server, app>>
    \/ /\ ~Called /\ Logged < MaxEntries
       /\ \E n \in AccountNumbers, amount \in Amounts :
              Withdraw(n, amount) /\ UNCHANGED <<server, app>>
    \/ /\ ~Called /\ Logged < MaxEntries
       /\ \E from \in AccountNumbers, to \in AccountNumbers, amount \in Amounts :
              Transfer(from, to, amount) /\ UNCHANGED <<server, app>>
    \/ /\ ~Called /\ Logged < MaxEntries
       /\ \E n \in AccountNumbers, amount \in Amounts, term \in Terms :
              OpenTermDeposit(n, amount, term.rate, term.months)
              /\ UNCHANGED <<server, app>>
    \/ /\ ~Called /\ Logged < MaxEntries
       /\ \E id \in TermDepositIds, n \in AccountNumbers :
              CloseTermDeposit(id, n) /\ UNCHANGED <<server, app>>
    \/ Return /\ UNCHANGED <<server, app>>

SpecBank == Init /\ [][NextBank]_vars

\* ------------------------------------------------ a term deposit session
\* Accounts are opened with 15000, as in the README's tests; term deposits of
\* 5000 and 10000 are opened at the README's rates (4.5 and 5 percent for 12
\* months) and at a rate that takes all the principal; a year passes, to the
\* day on which a 12-month deposit opened at the start matures. The
\* openings stop at MaxEntries history entries; a term deposit closes once,
\* so that the closings need no cap.
Principals == {Number(5000), Number(10000)}
Offers == {[rate |-> 45, months |-> 12], [rate |-> 5 * PerCent, months |-> 12],
           [rate |-> -1200 * PerCent, months |-> 1]}
Dates == {AddMonths(0, 12)}

\* the server's state but the clock
serverData == <<users, posts, nextUserId, nextPostId, authToken, signedToken,
                signedContent, loggedIn, signer, lastAccepted, last, hashing>>

\* Time passes between two calls on the bank.
Pass ==
    /\ ~Called
    /\ \E t \in Dates : t > now /\ now' = t
    /\ UNCHANGED <<serverData, bank, app>>

NextTerm ==
    \/ CreateAccount(Number(15000)) /\ UNCHANGED <<server, app>>
    \/ /\ ~Called /\ Logged < MaxEntries
       /\ \E n \in AccountNumbers, amount \in Principals, term \in Offers :
              OpenTermDeposit(n, amount, term.rate, term.months)
              /\ UNCHANGED <<server, app>>
    \/ \E id \in TermDepositIds, n \in AccountNumbers :
            CloseTermDeposit(id, n) /\ UNCHANGED <<server, app>>
    \/ Return /\ UNCHANGED <<server, app>>
    \/ Pass

SpecTerm == Init /\ [][NextTerm]_vars

\* ================================================================ the menu
\* The BankingApp of src/index.js: run() reads an option, the option's
\* method reads its answers, calls the bank and prints, and run() shows the
\* menu again. An answer is the line the customer typed.
Numerals ==
    ("0" :> 0) @@ ("1" :> 1) @@ ("2" :> 2) @@ ("-1" :> 0 - 1) @@ ("1200" :> 1200)
    @@ ("-1200" :> 0 - 1200) @@ ("1000" :> 1000) @@ ("1001" :> 1001)
    @@ ("1002" :> 1002) @@ ("1003" :> 1003)

\* parseFloat(answer) and parseInt(answer) of the answers above, of
\* "Infinity" and of text that is no number
parseFloat(answer) ==
    IF answer \in DOMAIN Numerals THEN Number(Numerals[answer])
    ELSE IF answer = "Infinity" THEN Infinity
    ELSE NaN
parseInt(answer) ==
    IF answer \in DOMAIN Numerals THEN Number(Numerals[answer]) ELSE NaN

isNaN(a) == a.kind = "NaN"

\* !value
Not(value) == value = Null \/ value = Number(0) \/ value = NaN

\* Bank.getAccount(accountNumber)
getAccount(accountNumber) ==
    IF accountNumber.kind = "finite" /\ accountNumber.n \in DOMAIN accounts
    THEN Done(accounts[accountNumber.n])
    ELSE Threw("Account not found", Null)

\* The option being answered: the session it found, the first number it
\* read and what it printed.
Command(option, entered, printed) ==
    [option |-> option, session |-> currentAccount, entered |-> entered,
     printed |-> printed]

Prompting == command.option = ""

\* An option that prints and returns without a call that changes the bank.
Say(option, entered, printed) ==
    /\ command' = Command(option, entered, printed)
    /\ UNCHANGED <<bank, currentAccount>>

PleaseLogin == "Please login to an account first."
InvalidAmount == "Invalid amount. Please enter a valid positive number."

\* what an option prints after its call on the bank
Report(done, error) == IF outcome'.threw = "" THEN done ELSE error

\* createAccount()
createAccount(answer) ==
    LET initialBalance == parseFloat(answer)
    IN  /\ Prompting
        /\ IF isNaN(initialBalance) \/ Greater(Number(0), initialBalance)
           THEN Say("createAccount", initialBalance, InvalidAmount)
           ELSE /\ CreateAccount(initialBalance)
                /\ command' = Command("createAccount", initialBalance,
                                      "Account created successfully!")
                /\ UNCHANGED currentAccount

\* A variant of loginToAccount that keeps the session when the login fails.
loginToAccountKeepingSession(answer) ==
    LET accountNumber == parseInt(answer)
    IN  /\ Prompting
        /\ UNCHANGED bank
        /\ IF getAccount(accountNumber).threw = ""
           THEN /\ currentAccount' = accountNumber
                /\ command' = Command("loginToAccount", accountNumber, "Logged in to account")
           ELSE /\ UNCHANGED currentAccount
                /\ command' = Command("loginToAccount", accountNumber, "Error logging in:")

\* loginToAccount()
loginToAccount(answer) ==
    LET accountNumber == parseInt(answer)
    IN  /\ Prompting
        /\ UNCHANGED bank
        /\ IF getAccount(accountNumber).threw = ""
           THEN /\ currentAccount' = accountNumber
                /\ command' = Command("loginToAccount", accountNumber, "Logged in to account")
           ELSE /\ currentAccount' = Null
                /\ command' = Command("loginToAccount", accountNumber, "Error logging in:")

\* checkBalance()
checkBalance ==
    /\ Prompting
    /\ IF Not(currentAccount)
       THEN Say("checkBalance", Null, PleaseLogin)
       ELSE IF getAccount(currentAccount).threw # ""
       THEN Say("checkBalance", Null, "Error checking balance:")
       ELSE Say("checkBalance", getAccount(currentAccount).account.balance,
                "Current balance:")

\* depositMoney()
depositMoney(answer) ==
    LET amount == parseFloat(answer)
    IN  /\ Prompting
        /\ IF Not(currentAccount)
           THEN Say("depositMoney", Null, PleaseLogin)
           ELSE IF isNaN(amount) \/ AtMost(amount, Number(0))
           THEN Say("depositMoney", amount, InvalidAmount)
           ELSE /\ Deposit(currentAccount.n, amount)
                /\ command' = Command("depositMoney", amount,
                                      Report("Deposited", "Error depositing money:"))
                /\ UNCHANGED currentAccount

\* withdrawMoney()
withdrawMoney(answer) ==
    LET amount == parseFloat(answer)
    IN  /\ Prompting
        /\ IF Not(currentAccount)
           THEN Say("withdrawMoney", Null, PleaseLogin)
           ELSE IF isNaN(amount) \/ AtMost(amount, Number(0))
           THEN Say("withdrawMoney", amount, InvalidAmount)
           ELSE /\ Withdraw(currentAccount.n, amount)
                /\ command' = Command("withdrawMoney", amount,
                                      Report("Withdrew", "Error withdrawing money:"))
                /\ UNCHANGED currentAccount

\* transferMoney()
transferMoney(recipient, answer) ==
    LET toAccount == parseInt(recipient)
        amount == parseFloat(answer)
    IN  /\ Prompting
        /\ IF Not(currentAccount)
           THEN Say("transferMoney", Null, PleaseLogin)
           ELSE IF isNaN(toAccount) \/ isNaN(amount) \/ AtMost(amount, Number(0))
           THEN Say("transferMoney", toAccount, "Invalid input. Please enter valid numbers.")
           ELSE /\ Transfer(currentAccount.n, toAccount.n, amount)
                /\ command' = Command("transferMoney", toAccount,
                                      Report("Transfer successful!",
                                             "Error transferring money:"))
                /\ UNCHANGED currentAccount

\* openTermDeposit(); the rate entered is in percent
openTermDeposit(answer, rate, months) ==
    LET amount == parseFloat(answer)
        interestRate == parseFloat(rate)
        termMonths == parseInt(months)
    IN  /\ Prompting
        /\ IF Not(currentAccount)
           THEN Say("openTermDeposit", Null, PleaseLogin)
           ELSE IF \/ isNaN(amount) \/ AtMost(amount, Number(0))
                   \/ isNaN(interestRate) \/ AtMost(interestRate, Number(0))
                   \/ isNaN(termMonths) \/ AtMost(termMonths, Number(0))
           THEN Say("openTermDeposit", amount,
                    "Invalid input. Please enter valid positive numbers.")
           ELSE /\ OpenTermDeposit(currentAccount.n, amount, interestRate.n * PerCent,
                                   termMonths.n)
                /\ command' = Command("openTermDeposit", amount,
                                      Report("Term deposit opened successfully!",
                                             "Error opening term deposit:"))
                /\ UNCHANGED currentAccount

\* viewTermDeposits()
viewTermDeposits ==
    /\ Prompting
    /\ IF DOMAIN termDeposits = {}
       THEN Say("viewTermDeposits", Null, "No term deposits found.")
       ELSE Say("viewTermDeposits", Null, "=== Term Deposits ===")

\* closeTermDeposit()
closeTermDeposit(answer) ==
    LET termDepositId == parseInt(answer)
    IN  /\ Prompting
        /\ IF Not(currentAccount)
           THEN Say("closeTermDeposit", Null, PleaseLogin)
           ELSE IF isNaN(termDepositId)
           THEN Say("closeTermDeposit", termDepositId, "Invalid term deposit ID.")
           ELSE /\ CloseTermDeposit(termDepositId.n, currentAccount.n)
                /\ command' = Command("closeTermDeposit", termDepositId,
                                      Report("Term deposit closed successfully!",
                                             "Error closing term deposit:"))
                /\ UNCHANGED currentAccount

\* viewTransactionHistory()
viewTransactionHistory ==
    /\ Prompting
    /\ IF Not(currentAccount)
       THEN Say("viewTransactionHistory", Null, PleaseLogin)
       ELSE IF getAccount(currentAccount).threw # ""
       THEN Say("viewTransactionHistory", Null, "Error viewing transaction history:")
       ELSE IF getAccount(currentAccount).account.transactions = <<>>
       THEN Say("viewTransactionHistory", Null, "No transactions found.")
       ELSE Say("viewTransactionHistory", Null, "=== Transaction History ===")

\* run(): the option has returned and the menu is shown again
Menu ==
    /\ ~Prompting
    /\ command' = NoCommand
    /\ outcome' = NoCall
    /\ UNCHANGED <<accounts, termDeposits, nextAccountNumber, nextTermDepositId,
                   currentAccount>>

\* ------------------------------------------------------ a menu session
\* What the customer types: an opening deposit, account numbers (of
\* accounts, of none, and no number), amounts, a rate, a term and term
\* deposit ids. The options that write history stop at MaxEntries entries.
OpeningAnswers == {"2", "-1"}
AccountAnswers == {"1000", "1001", "1003", "abc"}
AmountAnswers == {"1", "0", "abc"}
RateAnswers == {"1200"}
MonthsAnswers == {"1"}
IdAnswers == {"1", "Infinity"}

NextMenu ==
    \/ \E answer \in OpeningAnswers : createAccount(answer) /\ UNCHANGED server
    \/ \E answer \in AccountAnswers : loginToAccount(answer) /\ UNCHANGED server
    \/ checkBalance /\ UNCHANGED server
    \/ /\ Prompting /\ Logged < MaxEntries
       /\ \E answer \in AmountAnswers : depositMoney(answer) /\ UNCHANGED server
    \/ /\ Prompting /\ Logged < MaxEntries
       /\ \E answer \in AmountAnswers : withdrawMoney(answer) /\ UNCHANGED server
    \/ /\ Prompting /\ Logged < MaxEntries
       /\ \E recipient \in AccountAnswers, answer \in AmountAnswers :
              transferMoney(recipient, answer) /\ UNCHANGED server
    \/ /\ Prompting /\ Logged < MaxEntries
       /\ \E answer \in AmountAnswers, rate \in RateAnswers, months \in MonthsAnswers :
              openTermDeposit(answer, rate, months) /\ UNCHANGED server
    \/ viewTermDeposits /\ UNCHANGED server
    \/ /\ Prompting /\ Logged < MaxEntries
       /\ \E answer \in IdAnswers : closeTermDeposit(answer) /\ UNCHANGED server
    \/ viewTransactionHistory /\ UNCHANGED server
    \/ Menu /\ UNCHANGED server

SpecMenu == Init /\ [][NextMenu]_vars

\* ------------------------------------------------------------------ claims
IsMutating == last.endpoint \in Mutating
IsProtected == last.endpoint \in Mutating \cup {"POST /auth/sign-content"}

\* the outer signature of a token is the server's over its header and claims
SignatureValid(token) ==
    token.signature = HMAC(<<token.header, token.payload>>, JWT_SECRET)

\* the request presented the client's plain token, valid when presented
PlainPresented ==
    /\ authToken # NoToken
    /\ last.auth = Bearer(authToken)
    /\ last.at < authToken.payload.exp

\* the request presented the bound token sign-content issued, valid when presented
BoundPresented ==
    /\ signedToken # NoToken
    /\ last.auth = Bearer(signedToken)
    /\ last.at < signedToken.payload.exp

\* the request presented the bound token with its outer bytes altered
AlteredPresented ==
    /\ signedToken # NoToken
    /\ \E how \in Alterations : last.auth = Bearer(Alter(signedToken, how))

Keys(obj) == {obj[i].k : i \in 1..Len(obj)}
\* some field has another value in the one payload than in the other
DiffersInValue(p, q) == \E k \in Keys(p) \cup Keys(q) : Get(p, k) # Get(q, k)

Rejected(stage, status, error) ==
    last.stage = stage /\ last.status = status /\ last.error = error

\* C1: a bound token issued by sign-content for P, presented on a mutating
\* endpoint with payload P', passes content verification when P' has the
\* canonical bytes of P and is rejected with 400 'Content signature mismatch.'
\* when P' differs from P in a field value.
C1_BoundTokenDecidesByValue ==
    (IsMutating /\ BoundPresented) =>
        /\ JSONstringify(last.body) = JSONstringify(signedContent) => last.stage = "handler"
        /\ DiffersInValue(last.body, signedContent) =>
               Rejected("verifyContentSignature", 400, "Content signature mismatch.")

\* C2: a mutating endpoint called with a valid plain token answers 400
\* 'Content signature required for POST operations.', whatever the payload.
C2_PlainTokenNeedsSignature ==
    (IsMutating /\ PlainPresented) =>
        Rejected("verifyContentSignature", 400,
                 "Content signature required for POST operations.")

C2_Witness ==
    /\ IsMutating /\ PlainPresented /\ last.body # <<>>
    /\ Rejected("verifyContentSignature", 400,
                "Content signature required for POST operations.")

\* C3: a mutating request with payload P of principal U reaches its handler
\* only if sign-content, called with a valid token of U, issued the presented
\* token for exactly P, after a login or registration of U.
C3_NoShortcut ==
    (IsMutating /\ last.stage = "handler") =>
        /\ signedToken # NoToken
        /\ last.auth = Bearer(signedToken)
        /\ last.body = signedContent
        /\ signer = signedToken.payload.userId
        /\ signer \in loggedIn

\* C4: in every step in which verifyToken or verifyContentSignature rejects a
\* request, the handler does not run: users, posts, nextUserId and nextPostId
\* stay as they are and no token is issued.
C4_RejectionLeavesStore ==
    [][(last' # last /\ last'.stage \in {"verifyToken", "verifyContentSignature"})
           => (UNCHANGED store /\ last'.token = NoToken /\ UNCHANGED lastAccepted)]_vars

C4_Witness ==
    /\ IsMutating
    /\ Rejected("verifyContentSignature", 400, "Content signature mismatch.")
    /\ Len(posts) = 3

\* C5: a bound token accepted once on a mutating call is accepted again with
\* the same payload on the same call, as long as it has not expired.
C5_BoundTokenReusable ==
    (IsMutating /\ last.replay /\ last.at < last.auth.token.payload.exp) =>
        last.stage = "handler"

C5_Witness ==
    /\ IsMutating /\ last.replay /\ last.stage = "handler"
    /\ last.at > last.auth.token.payload.iat

\* C6: a signed token that was used for an accepted POST or PUT cannot be
\* used to have a second identical operation accepted.
C6_NoReplay ==
    ~(IsMutating /\ last.replay /\ last.stage = "handler" /\ last.status \in {200, 201})

ExpiredPresented ==
    /\ IsProtected
    /\ last.auth.scheme = "Bearer"
    /\ last.auth.token # NoToken
    /\ last.auth.token.payload.exp <= last.at

\* C8 as claimed: a token whose exp is in the past fails with 'jwt expired'
\* whether its outer signature is valid or not.
C8_ExpiredWhateverSignature ==
    (ExpiredPresented /\ last.auth.token.segments = 3) =>
        (Rejected("verifyToken", 403, "Invalid token.") /\ last.message = "jwt expired")

\* C8: a well-formed token whose exp is in the past is rejected by
\* verifyToken, with 'jwt expired' when its outer signature is valid and with
\* 'invalid signature' when it is not.
C8_ExpiredAfterSignature ==
    (ExpiredPresented /\ last.auth.token.segments = 3) =>
        /\ Rejected("verifyToken", 403, "Invalid token.")
        /\ last.message = IF SignatureValid(last.auth.token)
                          THEN "jwt expired" ELSE "invalid signature"

C8_Witness ==
    /\ ExpiredPresented
    /\ SignatureValid(last.auth.token)
    /\ last.auth.token.segments = 3
    /\ last.message = "jwt expired"

\* C9: verifyToken checks, in this order, the bearer credential (401), the
\* split into three segments, the outer signature and the expiry (403), and
\* answers with the first check that fails.
C9_VerifyTokenOrder ==
    IsProtected =>
        IF last.auth.scheme # "Bearer"
        THEN Rejected("verifyToken", 401, "Access denied. No token provided.")
        ELSE IF last.auth.token.segments # 3
        THEN Rejected("verifyToken", 403, "Invalid token.") /\ last.message = "jwt malformed"
        ELSE IF ~SignatureValid(last.auth.token)
        THEN Rejected("verifyToken", 403, "Invalid token.")
             /\ last.message = "invalid signature"
        ELSE IF last.at >= last.auth.token.payload.exp
        THEN Rejected("verifyToken", 403, "Invalid token.") /\ last.message = "jwt expired"
        ELSE last.stage # "verifyToken"

C9_Witness ==
    /\ ExpiredPresented
    /\ last.auth.token.segments # 3
    /\ last.message = "jwt malformed"

\* C10: every token generateToken issues has exp = iat + 24h.
C10_ExpIsIatPlusTTL ==
    last.token # NoToken => last.token.payload.exp = last.token.payload.iat + TTL

Protected ==
    {"POST /auth/sign-content", "POST /api/posts", "PUT /api/posts/:id",
     "DELETE /api/posts/:id", "GET /api/users", "GET /api/users/me"}

\* C11: no request that presents a token at a time at or after the token's
\* exp reaches the handler of a protected endpoint (sign-content, POST, PUT
\* and DELETE posts, GET users, GET users/me): verifyToken answers it.
C11_ExpiredNeverAccepted ==
    (/\ last.endpoint \in Protected
     /\ last.auth.token # NoToken
     /\ last.at >= last.auth.token.payload.exp)
        => (Rejected("verifyToken", 403, "Invalid token.") /\ last.token = NoToken)

C11_Witness ==
    /\ last.endpoint = "DELETE /api/posts/:id"
    /\ last.auth = Bearer(authToken)
    /\ last.at = authToken.payload.exp
    /\ FindPost(last.id) # {}
    /\ last.message = "jwt expired"

\* C13: every 'Content signature mismatch.' response carries the payload of
\* the rejected request and the payload that was signed, and the signed
\* payload it reports is the payload that was given to sign-content.
C13_MismatchReportsBothPayloads ==
    (IsMutating /\ BoundPresented /\ last.error = "Content signature mismatch.") =>
        /\ last.details.present
        /\ last.details.submittedContent = last.body
        /\ last.details.signedContent = signedContent

\* the request passed verifyToken with a token that carries an envelope
EnvelopePresented ==
    /\ IsMutating
    /\ last.auth.scheme = "Bearer"
    /\ last.auth.token.segments = 3
    /\ SignatureValid(last.auth.token)
    /\ last.at < last.auth.token.payload.exp
    /\ "contentSignature" \in DOMAIN last.auth.token.payload

\* the inner signature of a token's envelope is the server's under the content key
InnerValid(token) ==
    LET inner == token.payload.contentSignature
    IN  inner.signature = HMAC(<<inner.header, inner.payload>>, CONTENT_SIGNATURE_SECRET)

\* C12 as claimed: verifyContentSignature rejects an envelope whose inner
\* signature does not verify under the content key with 'Invalid content
\* signature.', otherwise compares the bytes of the request payload with the
\* signedContent claim, and lets the request through exactly when they are equal.
C12_ComparesWithClaim ==
    EnvelopePresented =>
        IF ~InnerValid(last.auth.token)
        THEN Rejected("verifyContentSignature", 400, "Invalid content signature.")
        ELSE IF JSONstringify(last.body) # last.auth.token.payload.signedContent
        THEN Rejected("verifyContentSignature", 400, "Content signature mismatch.")
        ELSE last.stage = "handler"

\* C12: verifyContentSignature rejects an envelope whose inner signature does
\* not verify under the content key with 'Invalid content signature.',
\* otherwise compares the bytes of the request payload with the content
\* carried inside the signed contentSignature, and lets the request through
\* exactly when they are equal; the signedContent claim is not compared.
C12_ComparesWithSignedContent ==
    EnvelopePresented =>
        IF ~InnerValid(last.auth.token)
        THEN Rejected("verifyContentSignature", 400, "Invalid content signature.")
        ELSE IF JSONstringify(last.body)
                    # last.auth.token.payload.contentSignature.payload.content
        THEN Rejected("verifyContentSignature", 400, "Content signature mismatch.")
        ELSE last.stage = "handler"

C12_Witness ==
    /\ EnvelopePresented
    /\ ~InnerValid(last.auth.token)
    /\ JSONstringify(last.body) # last.auth.token.payload.signedContent
    /\ Rejected("verifyContentSignature", 400, "Invalid content signature.")

\* the two payloads have the same fields with the same values
SameFields(p, q) ==
    /\ Len(p) = Len(q)
    /\ {p[i] : i \in 1..Len(p)} = {q[i] : i \in 1..Len(q)}
\* the same fields and values, in another order
Reordered(p, q) == SameFields(p, q) /\ p # q
\* the fields of a payload whose names are not array indices, in order
NamedFields(p) == SelectSeq(p, LAMBDA f : ~IsIndex(f.k))

\* C14 as claimed: a payload presented as it was signed is accepted, and a
\* payload with the same fields and values in another order is rejected
\* with 'Content signature mismatch.'.
C14_AnyReorderingRejected ==
    (IsMutating /\ BoundPresented) =>
        /\ last.body = signedContent => last.stage = "handler"
        /\ Reordered(last.body, signedContent) =>
               Rejected("verifyContentSignature", 400, "Content signature mismatch.")

\* C14: a payload presented as it was signed is accepted; a payload with the
\* same fields and values is rejected with 'Content signature mismatch.' when
\* its fields with ordinary names come in another order, and accepted when
\* only fields named by array indices have moved.
C14_NamedReorderingRejected ==
    (IsMutating /\ BoundPresented) =>
        /\ last.body = signedContent => last.stage = "handler"
        /\ (Reordered(last.body, signedContent)
              /\ NamedFields(last.body) # NamedFields(signedContent)) =>
               Rejected("verifyContentSignature", 400, "Content signature mismatch.")
        /\ (Reordered(last.body, signedContent)
              /\ NamedFields(last.body) = NamedFields(signedContent)) =>
               last.stage = "handler"

C14_Witness ==
    /\ IsMutating /\ BoundPresented
    /\ Reordered(last.body, signedContent)
    /\ Get(last.body, "title") = Str("A")
    /\ Rejected("verifyContentSignature", 400, "Content signature mismatch.")

\* the canonical payload in a bound token's envelope is that of a non-empty object
NonEmptyEnvelope(token) ==
    "contentSignature" \in DOMAIN token.payload =>
        /\ token.payload.signedContent # "{}"
        /\ token.payload.contentSignature.payload.content # "{}"

\* C15: sign-content called with a valid token and a missing or empty payload
\* answers 400 'No content provided' and issues no token, so every bound
\* token issued or held carries an envelope for a non-empty payload.
C15_NoEmptyEnvelope ==
    /\ (last.endpoint = "POST /auth/sign-content" /\ last.stage = "handler"
          /\ Len(last.body) = 0) =>
             (last.status = 400 /\ last.error = "No content provided"
              /\ last.token = NoToken)
    /\ last.token # NoToken => NonEmptyEnvelope(last.token)
    /\ signedToken # NoToken => NonEmptyEnvelope(signedToken)

C15_Witness ==
    /\ last.endpoint = "POST /auth/sign-content"
    /\ PlainPresented
    /\ last.body = <<>>
    /\ last.error = "No content provided"

\* the request presented, as its bearer token, a blob signed under the content key
ContentKeyBlobPresented ==
    /\ last.endpoint \in Protected
    /\ last.auth.scheme = "Bearer"
    /\ last.auth.token.segments = 3
    /\ last.auth.token.signature.key = CONTENT_SIGNATURE_SECRET

\* the request passed verifyToken with an envelope signed under the auth key
AuthKeyEnvelopePresented ==
    /\ EnvelopePresented
    /\ last.auth.token.payload.contentSignature.signature.key = JWT_SECRET

\* C16: the two keys differ and a signature made under one does not verify
\* under the other: a blob signed under the content key presented as a
\* bearer token is rejected by verifyToken, and an envelope signed under the
\* auth key is rejected by verifyContentSignature with 'Invalid content
\* signature.'.
C16_KeysIndependent ==
    /\ JWT_SECRET # CONTENT_SIGNATURE_SECRET
    /\ ContentKeyBlobPresented =>
           (Rejected("verifyToken", 403, "Invalid token.")
            /\ last.message = "invalid signature")
    /\ AuthKeyEnvelopePresented =>
           (Rejected("verifyContentSignature", 400, "Invalid content signature.")
            /\ last.message = "invalid signature")

C16_Witness ==
    /\ AuthKeyEnvelopePresented
    /\ JSONstringify(last.body) = last.auth.token.payload.signedContent
    /\ Rejected("verifyContentSignature", 400, "Invalid content signature.")

\* C17: every failure of the outer token (no credential, malformed, badly
\* signed, expired) is answered with HTTP 401, and 403 is answered only to a
\* valid token without permission.
C17_OuterFailuresAre401 ==
    /\ (IsProtected /\ last.stage = "verifyToken") => last.status = 401
    /\ last.status = 403 => (last.stage = "handler" /\ last.error = "Access denied")

\* the routes behind verifyToken alone
AuthenticatedOnly ==
    {"POST /auth/sign-content", "DELETE /api/posts/:id", "GET /api/users",
     "GET /api/users/me"}

\* C18: on the routes that require authentication only, every unexpired
\* token with a valid outer signature, bound or plain, passes verifyToken
\* whatever its envelope and the request payload are, and the handler works
\* with the claims of the token as they are.
C18_EnvelopeNotInspected ==
    (/\ last.endpoint \in AuthenticatedOnly
     /\ last.auth.scheme = "Bearer"
     /\ last.auth.token.segments = 3
     /\ SignatureValid(last.auth.token)
     /\ last.at < last.auth.token.payload.exp)
        => /\ last.stage = "handler"
           /\ last.status \notin {401, 403}
           /\ last.token # NoToken =>
                  last.token.payload.userId = last.auth.token.payload.userId

C18_Witness ==
    /\ last.endpoint = "DELETE /api/posts/:id"
    /\ BoundPresented
    /\ last.body # signedContent
    /\ last.status = 200

\* What the two verifiers answer, from the credential, the request payload,
\* the time and the keys alone: the stage that ends the request with its
\* status and error, or "handler".
Verdict(stage, status, error) == [stage |-> stage, status |-> status, error |-> error]
ExpectedVerdict(auth, body, t, contentRequired) ==
    IF auth.scheme # "Bearer"
    THEN Verdict("verifyToken", 401, "Access denied. No token provided.")
    ELSE IF \/ auth.token.segments # 3
            \/ ~SignatureValid(auth.token)
            \/ t >= auth.token.payload.exp
    THEN Verdict("verifyToken", 403, "Invalid token.")
    ELSE IF ~contentRequired
    THEN Verdict("handler", 0, "")
    ELSE IF "contentSignature" \notin DOMAIN auth.token.payload
    THEN Verdict("verifyContentSignature", 400,
                 "Content signature required for POST operations.")
    ELSE IF ~InnerValid(auth.token)
    THEN Verdict("verifyContentSignature", 400, "Invalid content signature.")
    ELSE IF JSONstringify(body) # auth.token.payload.contentSignature.payload.content
    THEN Verdict("verifyContentSignature", 400, "Content signature mismatch.")
    ELSE Verdict("handler", 0, "")

ObservedVerdict(x) ==
    IF x.stage = "handler" THEN Verdict("handler", 0, "")
    ELSE Verdict(x.stage, x.status, x.error)

\* C19: in every step that answers a request to a protected route, whatever
\* registrations, creations, updates and deletions came before it, the
\* verifiers' outcome is the one fixed by the token, the request payload, the
\* time and the keys, and a step that ends in a verifier leaves users, posts,
\* nextUserId and nextPostId as they are.
C19_VerificationIsPure ==
    [][(last' # last /\ last'.endpoint \in Protected) =>
          /\ ObservedVerdict(last')
                 = ExpectedVerdict(last'.auth, last'.body, last'.at,
                                   last'.endpoint \in Mutating)
          /\ last'.stage # "handler" => UNCHANGED store]_vars

C19_Witness ==
    /\ IsMutating /\ last.replay
    /\ last.stage = "handler" /\ last.status = 404
    /\ Len(users) = 2

OwnerRoutes == {"PUT /api/posts/:id", "DELETE /api/posts/:id"}

\* the step answers a PUT or DELETE whose handler found the post
ReachesPost ==
    /\ last' # last
    /\ last'.endpoint \in OwnerRoutes
    /\ last'.stage = "handler"
    /\ last'.status # 400
    /\ FindPost(last'.id) # {}

\* C20: a PUT or DELETE changes the posts list only when the userId of the
\* verified token is the authorId of the post; a request of another user
\* that reaches the post is answered 403 'Access denied' and changes
\* nothing; and no step changes the authorId of a stored post.
C20_OnlyOwnerChangesPost ==
    [][/\ (last' # last /\ last'.endpoint \in OwnerRoutes /\ posts' # posts) =>
              /\ FindPost(last'.id) # {}
              /\ posts[First(FindPost(last'.id))].authorId
                     = last'.auth.token.payload.userId
       /\ (ReachesPost /\ posts[First(FindPost(last'.id))].authorId
                              # last'.auth.token.payload.userId) =>
              (last'.status = 403 /\ last'.error = "Access denied" /\ UNCHANGED store)
       /\ \A i \in 1..Len(posts), j \in 1..Len(posts') :
              posts[i].id = posts'[j].id => posts[i].authorId = posts'[j].authorId]_vars

C20_Witness ==
    /\ last.endpoint = "PUT /api/posts/:id"
    /\ BoundPresented
    /\ last.auth.token.payload.userId = 2
    /\ last.status = 403 /\ last.error = "Access denied"
    /\ posts[1].title = Str("Welcome Post")

\* C21: no two stored users share a username or an email, whatever the
\* interleaving of registration requests, and a registration answered 409
\* found its username or email taken and left the users list as it was.
C21_UsersUnique ==
    /\ \A i, j \in 1..Len(users) :
          i # j => /\ users[i].username # users[j].username
                   /\ users[i].email # users[j].email
    /\ (last.endpoint = "POST /auth/register" /\ last.status = 409) =>
          \E i \in 1..Len(users) : \/ users[i].username = Get(last.body, "username")
                                   \/ users[i].email = Get(last.body, "email")

\* a DELETE of post n has just succeeded
Deleted(n) ==
    last.endpoint = "DELETE /api/posts/:id" /\ last.id = n /\ last.status = 200
\* a GET of post n is being answered
Fetched(n) == last.endpoint = "GET /api/posts/:id" /\ last.id = n

\* C22: once a DELETE of post n has succeeded, every later GET of post n is
\* answered 404; the stored posts have distinct ids below the counter, the
\* counter never steps back, and a post that enters the list takes the
\* counter's value as its id.
C22_DeletedStaysGone ==
    /\ \A n \in AccessIds : [](Deleted(n) => [](Fetched(n) => last.status = 404))
    /\ [](\A i, j \in 1..Len(posts) :
             posts[i].id < nextPostId /\ (i # j => posts[i].id # posts[j].id))
    /\ [][/\ nextPostId' >= nextPostId
          /\ \A i \in 1..Len(posts') :
               (\A j \in 1..Len(posts) : posts[j].id # posts'[i].id) =>
                   (posts'[i].id = nextPostId /\ nextPostId' = nextPostId + 1)]_vars

\* post 1 was deleted, a post was created after that (it took id 3 and moved
\* to the second place), and a GET of post 1 is answered 404
C22_Witness ==
    /\ Fetched(1) /\ last.status = 404
    /\ Len(posts) = 2 /\ posts[2].id = 3

\* C23: every account of the bank has a balance >= 0, after any sequence of
\* deposit, withdraw, transfer, openTermDeposit and closeTermDeposit calls on
\* accounts opened with a non-negative balance.
C23_BalancesNonNegative ==
    \A n \in DOMAIN accounts : AtMost(Number(0), accounts[n].balance)

\* the account the latest call named, as the call found it and as it left it
Found == outcome.before.accounts[outcome.account]
Left == accounts[outcome.account]
\* the latest call was op on an account the bank has
CalledOn(op) == outcome.op = op /\ outcome.account \in DOMAIN outcome.before.accounts
\* the latest call left every account as it found it
AccountsUntouched == accounts = outcome.before.accounts

BankUntouched ==
    /\ AccountsUntouched
    /\ termDeposits = outcome.before.termDeposits
    /\ nextAccountNumber = outcome.before.nextAccountNumber
    /\ nextTermDepositId = outcome.before.nextTermDepositId

\* C25: a transfer that throws (same account, unknown sender or recipient,
\* non-positive amount, insufficient funds) has changed no balance and no
\* history.
C25_TransferAllOrNothing ==
    (outcome.op = "transfer" /\ outcome.threw # "") => BankUntouched

\* a transfer between two accounts of the bank was refused for lack of funds
C25_Witness ==
    /\ CalledOn("transfer")
    /\ outcome.other \in DOMAIN outcome.before.accounts
    /\ outcome.threw = "Insufficient funds"

\* the sum of the balances of the accounts accts, as JavaScript adds them
RECURSIVE Total(_)
Total(accts) ==
    IF DOMAIN accts = {} THEN Number(0)
    ELSE LET n == CHOOSE n \in DOMAIN accts : TRUE
         IN  Plus(accts[n].balance, Total([m \in DOMAIN accts \ {n} |-> accts[m]]))

\* C26: a transfer that returns has taken exactly the amount off the sender's
\* balance and put exactly the amount on the recipient's, returns these two
\* balances, leaves every other balance alone and keeps the sum of all
\* balances.
C26_TransferConservesMoney ==
    (outcome.op = "transfer" /\ outcome.threw = "") =>
        LET old == outcome.before.accounts
            from == outcome.account
            to == outcome.other
        IN  /\ accounts[from].balance = Minus(old[from].balance, outcome.amount)
            /\ accounts[to].balance = Plus(old[to].balance, outcome.amount)
            /\ outcome.returned = <<accounts[from].balance, accounts[to].balance>>
            /\ \A n \in DOMAIN accounts \ {from, to} : accounts[n].balance = old[n].balance
            /\ Total(accounts) = Total(old)

\* message.includes(part)
Contains(message, part) ==
    \E i \in 1..(Len(message) - Len(part) + 1) :
        SubSeq(message, i, i + Len(part) - 1) = part

\* C27: deposit and withdraw refuse an amount of zero or less with an error
\* that contains 'must be positive' and leave balance and history as they
\* were; a deposit of a positive amount puts exactly the amount on the
\* balance and returns the new balance.
C27_AmountsMustBePositive ==
    /\ ((CalledOn("deposit") \/ CalledOn("withdraw"))
           /\ AtMost(outcome.amount, Number(0))) =>
          Contains(outcome.threw, "must be positive") /\ AccountsUntouched
    /\ (CalledOn("deposit") /\ Greater(outcome.amount, Number(0))) =>
          /\ outcome.threw = ""
          /\ Left.balance = Plus(Found.balance, outcome.amount)
          /\ outcome.returned = <<Left.balance>>

\* a deposit of zero was refused
C27_Witness ==
    /\ CalledOn("deposit")
    /\ outcome.amount = Number(0)
    /\ outcome.threw = "Deposit amount must be positive"

\* the sequence p is the beginning of the sequence q
IsPrefix(p, q) == Len(p) <= Len(q) /\ SubSeq(q, 1, Len(p)) = p

\* C28: the history is an append-only log in the order of the operations: no
\* call removes, moves or changes an entry; a deposit or withdrawal that
\* returns appends one entry with its type, the amount and the balance it
\* left, and one that throws appends nothing.
C28_HistoryAppendOnly ==
    /\ \A n \in DOMAIN outcome.before.accounts :
          /\ n \in DOMAIN accounts
          /\ IsPrefix(outcome.before.accounts[n].transactions, accounts[n].transactions)
    /\ \A op \in {"deposit", "withdraw"} :
          CalledOn(op) =>
              Left.transactions =
                  IF outcome.threw # "" THEN Found.transactions
                  ELSE Append(Found.transactions,
                              [type |-> IF op = "deposit" THEN "deposit" ELSE "withdrawal",
                               amount |-> outcome.amount, balance |-> Left.balance,
                               ref |-> 0])

\* a deposit and then a withdrawal were logged, in this order
C28_Witness ==
    /\ CalledOn("withdraw")
    /\ outcome.threw = ""
    /\ Len(Left.transactions) = 2
    /\ Left.transactions[1].type = "deposit"
    /\ Left.transactions[2].type = "withdrawal"

\* C29: createAccount returns numbers from 1000 up, each greater than every
\* number handed out before, so that no two accounts share a number; the new
\* account holds the initial balance and every other account is as it was.
C29_AccountNumbersFresh ==
    /\ \A n \in DOMAIN accounts :
          accounts[n].accountNumber = n /\ 1000 <= n /\ n < nextAccountNumber
    /\ outcome.op = "createAccount" =>
          LET n == outcome.before.nextAccountNumber
              old == outcome.before.accounts
          IN  /\ outcome.threw = ""
              /\ outcome.returned = <<Number(n)>>
              /\ n >= 1000
              /\ \A m \in DOMAIN old : m < n
              /\ DOMAIN accounts = DOMAIN old \cup {n}
              /\ accounts[n].balance = outcome.amount
              /\ \A m \in DOMAIN old : accounts[m] = old[m]

\* a second account was opened, with 2 dollars, next to a first one that
\* has a history
C29_Witness ==
    /\ outcome.op = "createAccount"
    /\ outcome.returned = <<Number(1001)>>
    /\ accounts[1001].balance = Number(2)
    /\ Len(accounts[1000].transactions) > 0

\* C30: an openTermDeposit that returns has taken exactly the amount off the
\* account's balance and registered, under an id no term deposit had, an
\* active term deposit with the amount as principal and the given rate and
\* term; one asked for more than the balance throws 'Insufficient funds in
\* account' and changes neither the balance nor the term deposits nor
\* nextTermDepositId.
C30_OpenTermDeposit ==
    CalledOn("openTermDeposit") =>
        /\ outcome.threw = "" =>
              LET id == outcome.before.nextTermDepositId
                  old == outcome.before.termDeposits
              IN  /\ Left.balance = Minus(Found.balance, outcome.amount)
                  /\ outcome.returned = <<Number(id)>>
                  /\ id \notin DOMAIN old
                  /\ DOMAIN termDeposits = DOMAIN old \cup {id}
                  /\ \A d \in DOMAIN old : termDeposits[d] = old[d]
                  /\ termDeposits[id].principal = outcome.amount
                  /\ termDeposits[id].interestRate = outcome.rate
                  /\ termDeposits[id].termMonths = outcome.months
                  /\ termDeposits[id].isActive
                  /\ nextTermDepositId = id + 1
        /\ Greater(outcome.amount, Found.balance) =>
              outcome.threw = "Insufficient funds in account" /\ BankUntouched

\* a second term deposit of 1 dollar was opened from an account that held 1 dollar
C30_Witness ==
    /\ CalledOn("openTermDeposit")
    /\ outcome.threw = ""
    /\ outcome.amount = Number(1)
    /\ Found.balance = Number(1)
    /\ outcome.returned = <<Number(2)>>

\* ------------------------------------------------------ closing a term deposit
\* the term deposit a closeTermDeposit call named, as the call found it and
\* as it left it
Closed == outcome.op = "closeTermDeposit" /\ outcome.threw = ""
TermFound == outcome.before.termDeposits[outcome.other]
TermLeft == termDeposits[outcome.other]

\* the history has an entry of this type for term deposit id
HasEntry(account, type, id) ==
    \E i \in 1..Len(account.transactions) :
        account.transactions[i].type = type /\ account.transactions[i].ref = id

\* C31: a closeTermDeposit(id, account) that returns has marked the term
\* deposit inactive, returns the maturity amount of the deposit and has raised
\* the account's balance by exactly that amount, whatever the date of the call
\* (before the maturity date or on it).
C31_CloseTermDeposit ==
    Closed =>
        LET maturityAmount == calculateMaturityAmount(TermFound)
        IN  /\ TermFound.isActive
            /\ ~TermLeft.isActive
            /\ outcome.returned = <<maturityAmount>>
            /\ Left.balance = Plus(Found.balance, maturityAmount)

\* A term deposit opened at the start for 12 months is closed on the day it
\* matures and pays 5225 for 5000, after another one, opened that day, was
\* closed and paid before its maturity date.
C31_Witness ==
    /\ Closed
    /\ now = TermFound.maturityDate
    /\ isMatured(TermFound)
    /\ TermFound.principal = Number(5000)
    /\ outcome.returned = <<Number(5225)>>
    /\ \E id \in DOMAIN termDeposits :
          /\ id # outcome.other
          /\ ~isMatured(termDeposits[id])
          /\ ~termDeposits[id].isActive
          /\ \E n \in DOMAIN accounts : HasEntry(accounts[n], "term_deposit_closed", id)

\* C32: calculateMaturityAmount is simple interest, principal * (1 +
\* (annualRate / 100 / 12) * termMonths): 5000 at 4.5 percent for 12 months
\* gives 5225 and 10000 at 5 percent for 12 months gives 10500. The amount
\* depends on the principal, the rate and the term only, and a later call
\* gives what an earlier call gave: what closeTermDeposit returned is what
\* the closed deposit still calculates. The formula is stated without the
\* division, as amount * 100 * 12 = principal * (100 * 12 + annualRate * termMonths).
C32_SimpleInterest ==
    \A id \in DOMAIN termDeposits :
        LET td == termDeposits[id]
            amount == calculateMaturityAmount(td)
        IN  /\ amount.kind = "finite"
            /\ amount.n * 100 * 12 * PerCent
                   = td.principal.n * (100 * 12 * PerCent + td.interestRate * td.termMonths)
            /\ td.principal = Number(5000) /\ td.interestRate = 45 /\ td.termMonths = 12
                   => amount = Number(5225)
            /\ td.principal = Number(10000) /\ td.interestRate = 5 * PerCent
                                            /\ td.termMonths = 12
                   => amount = Number(10500)
            /\ \A other \in DOMAIN termDeposits :
                   /\ termDeposits[other].principal = td.principal
                   /\ termDeposits[other].interestRate = td.interestRate
                   /\ termDeposits[other].termMonths = td.termMonths
                   => calculateMaturityAmount(termDeposits[other]) = amount
            /\ Closed /\ outcome.other = id => outcome.returned = <<amount>>

\* 10000 at 5 percent for 12 months was closed for 10500, next to 5000 at 4.5
\* percent for 12 months, which calculates 5225.
C32_Witness ==
    /\ Closed
    /\ TermFound.principal = Number(10000)
    /\ TermFound.interestRate = 5 * PerCent
    /\ TermFound.termMonths = 12
    /\ outcome.returned = <<Number(10500)>>
    /\ \E id \in DOMAIN termDeposits :
          /\ termDeposits[id].principal = Number(5000)
          /\ termDeposits[id].interestRate = 45
          /\ termDeposits[id].termMonths = 12
          /\ termDeposits[id].startDate # TermFound.startDate
          /\ calculateMaturityAmount(termDeposits[id]) = Number(5225)

\* the number of term_deposit_closed entries that name term deposit id
RECURSIVE Payouts(_, _)
Payouts(numbers, id) ==
    IF numbers = {} THEN 0
    ELSE LET n == CHOOSE n \in numbers : TRUE
             paid == {i \in 1..Len(accounts[n].transactions) :
                          /\ accounts[n].transactions[i].type = "term_deposit_closed"
                          /\ accounts[n].transactions[i].ref = id}
         IN  Cardinality(paid) + Payouts(numbers \ {n}, id)

\* C33: a term deposit pays out at most once. A closeTermDeposit(id, b) that
\* finds the term deposit closed throws 'Term deposit is already closed' for
\* every account b of the bank and changes no balance; no call makes a closed
\* term deposit active again; the histories hold at most one
\* term_deposit_closed entry for a term deposit.
C33_PaysOutOnce ==
    /\ /\ outcome.op = "closeTermDeposit"
       /\ outcome.other \in DOMAIN outcome.before.termDeposits
       /\ outcome.account \in DOMAIN outcome.before.accounts
       /\ ~TermFound.isActive
       => /\ outcome.threw = "Term deposit is already closed"
          /\ AccountsUntouched
    /\ Called =>
          \A id \in DOMAIN outcome.before.termDeposits :
              ~outcome.before.termDeposits[id].isActive => ~termDeposits[id].isActive
    /\ \A id \in DOMAIN termDeposits : Payouts(DOMAIN accounts, id) <= 1

\* A term deposit that paid 5225 into one account is closed again for another
\* account, and the call throws.
C33_Witness ==
    /\ outcome.op = "closeTermDeposit"
    /\ outcome.threw = "Term deposit is already closed"
    /\ \E n \in DOMAIN accounts :
          /\ n # outcome.account
          /\ HasEntry(accounts[n], "term_deposit_closed", outcome.other)
    /\ accounts[outcome.account].transactions = <<>>

\* C34: the proceeds of a term deposit go to the account that funded it only.
\* A closeTermDeposit(id, account) returns only when account is the account
\* from which openTermDeposit withdrew the principal of term deposit id (the
\* one whose history has the term_deposit_opened entry for id), and the
\* accountNumber of every term deposit is that account.
C34_ProceedsToFunder ==
    /\ Closed => HasEntry(Found, "term_deposit_opened", outcome.other)
    /\ \A id \in DOMAIN termDeposits :
          /\ termDeposits[id].accountNumber \in DOMAIN accounts
          /\ HasEntry(accounts[termDeposits[id].accountNumber], "term_deposit_opened", id)

\* C35: closeTermDeposit is all-or-nothing. Whenever it throws (unknown term
\* deposit, unknown account, term deposit already closed, or the credit
\* refused by Account.deposit because the maturity amount is not positive),
\* the isActive flag of every term deposit, every balance and every history
\* are as the call found them.
C35_CloseAllOrNothing ==
    outcome.op = "closeTermDeposit" /\ outcome.threw # ""
        => /\ termDeposits = outcome.before.termDeposits
           /\ AccountsUntouched

\* the accounts a bank-level call touches
Touched ==
    IF outcome.op = "transfer" THEN {outcome.account, outcome.other}
    ELSE {outcome.account}

SessionOptions ==
    {"checkBalance", "depositMoney", "withdrawMoney", "transferMoney",
     "openTermDeposit", "closeTermDeposit", "viewTransactionHistory"}

\* C37: currentAccount is null or the number of an account of the bank; the
\* balance, deposit, withdraw, transfer, open and close term deposit and
\* history options act on the bank only while currentAccount is set (without
\* a session they print the request to log in and make no call, and a call
\* they make is on the account of the session); a login with the number of an
\* account sets currentAccount to that number, and a login with anything else
\* sets it to null, whatever session there was.
C37_Session ==
    /\ \/ currentAccount = Null
       \/ currentAccount.kind = "finite" /\ currentAccount.n \in DOMAIN accounts
    /\ command.option \in SessionOptions /\ command.session = Null
          => command.printed = PleaseLogin /\ ~Called
    /\ command.option \in SessionOptions /\ command.session # Null
          => /\ command.printed # PleaseLogin
             /\ Called => outcome.account = command.session.n
    /\ command.option = "loginToAccount"
          => /\ ~Called
             /\ IF getAccount(command.entered).threw = ""
                THEN currentAccount = command.entered
                     /\ command.printed = "Logged in to account"
                ELSE currentAccount = Null /\ command.printed = "Error logging in:"

\* After a deposit made in a session on account 1000, a login with a number
\* that is no account has ended the session.
C37_Witness ==
    /\ command.option = "loginToAccount"
    /\ command.session = Number(1000)
    /\ command.entered = Number(1003)
    /\ currentAccount = Null
    /\ accounts[1000].transactions # <<>>

\* ------------------------------------------------------- the length of a session
\* sign-content has issued a token
Signed == last.endpoint = "POST /auth/sign-content" /\ last.token # NoToken

C39_OneMutationPerToken ==
    [][(/\ lastAccepted' # lastAccepted
        /\ lastAccepted.endpoint # ""
        /\ lastAccepted'.endpoint # ""
        /\ lastAccepted'.auth = lastAccepted.auth
        /\ last'.status \in {200, 201})
       => /\ lastAccepted'.endpoint = lastAccepted.endpoint
          /\ lastAccepted'.id = lastAccepted.id]_vars

====
